---- MODULE Spec2Model ----
(***************************************************************************)
(* sqld: SQL over HTTP.  A model of the request-to-SQL compilers, the      *)
(* statement executor, the request router (handleQuery) and the batch      *)
(* insert coordinator (createMany).                                        *)
(*                                                                         *)
(* Conventions                                                             *)
(*   - A Go string that is split on "/" (a URL path, the -url flag) is     *)
(*     held as the sequence strings.Split(s, "/") gives: "/user/10" is     *)
(*     <<"", "user", "10">>, "/" is <<"", "">>, "" is <<"">>.              *)
(*   - A Go value handed to the database as a bound argument is a record   *)
(*     [t |-> its Go type, v |-> its text].                                *)
(*   - SQL text is built as a sequence of fragments whose concatenation    *)
(*     is the statement; the placeholder "?" is always its own fragment.   *)
(*     The text is the one squirrel builds before the placeholder format   *)
(*     of the dialect (Question or Dollar) renders the placeholders.       *)
(*   - Go's map iteration order is unspecified: every loop over a map      *)
(*     takes the order of its keys as a parameter, which the actions       *)
(*     choose freely.                                                      *)
(***************************************************************************)
EXTENDS Integers, Sequences, FiniteSets, TLC

-----------------------------------------------------------------------------
(* Bounds                                                                  *)

\* strconv.Atoi is modelled on the numerals of -MaxNum..MaxNum
MaxNum == 200
\* the largest affected-row count a statement reports
MaxAffected == 2
\* the longest JSON array handed to createMany
MaxItems == 3
\* the most keys a query string holds
MaxKeys == 3
\* the most requests served one after another against the stored table
MaxRequests == 3

-----------------------------------------------------------------------------
(* Go values and strings                                                   *)

GoString(s) == [t |-> "string", v |-> s]
GoNumber(s) == [t |-> "float64", v |-> s]
GoNil == [t |-> "nil", v |-> ""]

RECURSIVE Concat(_)
\* the concatenation of a sequence of string fragments
Concat(frags) ==
    IF frags = <<>> THEN "" ELSE Head(frags) \o Concat(Tail(frags))

RECURSIVE Join(_, _)
\* strings.Join on fragments: the elements of parts separated by sep
Join(parts, sep) ==
    IF parts = <<>> THEN <<>>
    ELSE IF Len(parts) = 1 THEN <<parts[1]>>
    ELSE <<parts[1], sep>> \o Join(Tail(parts), sep)

RECURSIVE Flatten(_)
\* the concatenation of a sequence of sequences
Flatten(seqs) ==
    IF seqs = <<>> THEN <<>> ELSE Head(seqs) \o Flatten(Tail(seqs))

\* every order in which a range loop may visit the keys of a map
Perms(S) ==
    {f \in [1..Cardinality(S) -> S] : \A a \in S : \E i \in DOMAIN f : f[i] = a}

Digit == <<"0", "1", "2", "3", "4", "5", "6", "7", "8", "9">>

RECURSIVE Itoa(_)
\* the decimal text of an integer (fmt "%d", strconv.Itoa)
Itoa(n) ==
    IF n < 0 THEN "-" \o Itoa(0 - n)
    ELSE IF n < 10 THEN Digit[n + 1]
    ELSE Itoa(n \div 10) \o Digit[(n % 10) + 1]

\* the texts strconv.Atoi accepts for n: an optional sign, then decimal
\* digits (leading zeros allowed)
Spellings(n) ==
    IF n < 0 THEN {Itoa(n), "-0" \o Itoa(0 - n)}
    ELSE IF n = 0 THEN {"0", "+0", "-0", "00"}
    ELSE {Itoa(n), "+" \o Itoa(n), "0" \o Itoa(n)}

AtoiTable ==
    LET texts == UNION {Spellings(n) : n \in (0 - MaxNum)..MaxNum}
    IN  [s \in texts |-> CHOOSE n \in (0 - MaxNum)..MaxNum : s \in Spellings(n)]

\* strconv.Atoi: the number, or an error for a text that is not a numeral
Atoi(s) ==
    IF s \in DOMAIN AtoiTable THEN [ok |-> TRUE, n |-> AtoiTable[s]]
    ELSE [ok |-> FALSE, n |-> 0]

\* 2^64 in base 10^4, most significant limb first
TwoPow64 == <<1844, 6744, 737, 955, 1616>>

\* the conversion uint64(n) of a Go int, as five base-10^4 limbs: a negative
\* n wraps around to 2^64 + n
uint64(n) ==
    IF n >= 0
    THEN <<0, 0, n \div 100000000, (n \div 10000) % 10000, n % 10000>>
    ELSE LET m  == 0 - n
             d5 == TwoPow64[5] - (m % 10000)
             b5 == IF d5 < 0 THEN 1 ELSE 0
             d4 == TwoPow64[4] - ((m \div 10000) % 10000) - b5
             b4 == IF d4 < 0 THEN 1 ELSE 0
             d3 == TwoPow64[3] - (m \div 100000000) - b4
             b3 == IF d3 < 0 THEN 1 ELSE 0
             d2 == TwoPow64[2] - b3
             b2 == IF d2 < 0 THEN 1 ELSE 0
         IN  <<TwoPow64[1] - b2, d2 + 10000 * b2, d3 + 10000 * b3,
               d4 + 10000 * b4, d5 + 10000 * b5>>

\* a limb below the leading one, padded to four digits
Pad4(d) ==
    IF d < 10 THEN "000" \o Itoa(d)
    ELSE IF d < 100 THEN "00" \o Itoa(d)
    ELSE IF d < 1000 THEN "0" \o Itoa(d)
    ELSE Itoa(d)

RECURSIVE FormatUint(_)
\* fmt.Sprintf("%d", u) of a uint64
FormatUint(u) ==
    IF Len(u) = 1 THEN Itoa(u[1])
    ELSE IF u[1] = 0 THEN FormatUint(Tail(u))
    ELSE Itoa(u[1]) \o Concat([i \in 1..(Len(u) - 1) |-> Pad4(u[i + 1])])

-----------------------------------------------------------------------------
(* State                                                                   *)

VARIABLES
    url,        \* the -url flag after handleFlags, split on "/"
    allowRaw,   \* the -raw flag
    req,        \* the request handleQuery is serving
    pc,         \* "received" until handleQuery has answered, then "responded"
    handler,    \* the handler handleQuery invoked: read, create, update, del,
                \* raw, or none
    compiled,   \* what the handler's compiler returned: (sql, args, err)
    stmts,      \* the statements handed to db.Query or db.Exec, in order,
                \* each with the database's answer
    data,       \* the payload the handler returned
    err,        \* the *SqldError the handler returned
    resp,       \* the response written: status, payload, body
    spawned,    \* createMany: how many elements the range loop has visited
    units,      \* createMany: per element, the goroutine's position and its
                \* locals item and err
    wg,         \* createMany: the counter of the sync.WaitGroup
    errMutex,   \* createMany: the unit holding errMutex, 0 when unlocked
    itemMutex,  \* createMany: the unit holding itemMutex, 0 when unlocked
    errors,     \* createMany: the errors slice
    items,      \* createMany: the items slice
    crashed,    \* the process has ended on an unrecovered panic
    store,      \* the rows of the table the database holds, in rowid order
    served      \* the requests answered so far, each with the rows stored
                \* when it arrived and what the handler returned

httpVars == <<url, allowRaw, req, pc, handler, compiled, stmts, data, err, resp>>
manyVars == <<spawned, units, wg, errMutex, itemMutex, errors, items, crashed>>
storeVars == <<store, served>>

-----------------------------------------------------------------------------
(* Paths and flags                                                         *)

\* strings.HasSuffix(s, "/") and strings.HasPrefix(s, "/") on a split string
HasSuffixSlash(s) == Len(s) >= 2 /\ s[Len(s)] = ""
HasPrefixSlash(s) == Len(s) >= 2 /\ s[1] = ""

\* handleFlags: the url prefix is made to end and to start with "/"
handleFlags(flagUrl) ==
    LET u == IF HasSuffixSlash(flagUrl) THEN flagUrl ELSE Append(flagUrl, "")
    IN  IF HasPrefixSlash(u) THEN u ELSE <<"">> \o u

\* strings.TrimPrefix(s, p) for a prefix p that ends with "/": the last
\* segment of p is empty, so p is a prefix of s exactly when the segments
\* before it are the first segments of s and s goes on after them
TrimPrefix(s, p) ==
    IF Len(s) >= Len(p) /\ SubSeq(s, 1, Len(p) - 1) = SubSeq(p, 1, Len(p) - 1)
    THEN SubSeq(s, Len(p), Len(s))
    ELSE s

\* parseRequest reading the id one segment too far
parseRequest_idShifted(r) ==
    LET paths == TrimPrefix(r.path, url)
    IN  [table |-> paths[1],
         args  |-> r.query,
         id    |-> IF Len(paths) > 2 THEN paths[3] ELSE ""]

\* parseRequest: the table name, the query values and the id of a request
parseRequest(r) ==
    LET paths == TrimPrefix(r.path, url)
    IN  [table |-> paths[1],
         args  |-> r.query,
         id    |-> IF Len(paths) > 1 THEN paths[2] ELSE ""]

-----------------------------------------------------------------------------
(* squirrel: predicates, builders and ToSql                                *)

\* squirrel.Placeholders(n): "?,?,...,?"
Placeholders(n) == Join([i \in 1..n |-> "?"], ",")

\* Eq with a one-element slice compiled like a scalar, to key = ?
Eq_singleAsEquals(key, val) ==
    IF val.t = "nil"
    THEN [frags |-> <<key, " IS NULL">>, args |-> <<>>]
    ELSE IF val.t = "[]string" /\ Len(val.v) # 1
    THEN [frags |-> <<key, " IN (">> \o Join([i \in 1..Len(val.v) |-> "?"], ",")
                        \o <<")">>,
          args  |-> [i \in 1..Len(val.v) |-> [t |-> "string", v |-> val.v[i]]]]
    ELSE IF val.t = "[]string"
    THEN [frags |-> <<key, " = ", "?">>, args |-> <<[t |-> "string", v |-> val.v[1]]>>]
    ELSE [frags |-> <<key, " = ", "?">>, args |-> <<val>>]

\* squirrel.Eq{key: val}.ToSql(): nil gives IS NULL, a slice gives an IN
\* list with one placeholder and one argument per element, any other value
\* gives key = ? with the value as argument
Eq(key, val) ==
    IF val.t = "nil"
    THEN [frags |-> <<key, " IS NULL">>, args |-> <<>>]
    ELSE IF val.t = "[]string"
    THEN [frags |-> <<key, " IN (">> \o Placeholders(Len(val.v)) \o <<")">>,
          args  |-> [i \in 1..Len(val.v) |-> GoString(val.v[i])]]
    ELSE [frags |-> <<key, " = ", "?">>, args |-> <<val>>]

\* a []string value of the query map
GoStrings(vals) == [t |-> "[]string", v |-> vals]

\* sq.Select("*").From(table), sq.Update("").Table(table),
\* sq.Delete("").From(table): a builder with no clause yet
NewBuilder(kind, table) ==
    [kind |-> kind, table |-> table, set |-> <<>>, where |-> <<>>,
     orderBys |-> <<>>, limit |-> "", offset |-> ""]

\* builder.Where(pred): one more part of the WHERE clause
Where(query, part) == [query EXCEPT !.where = Append(@, part)]
\* builder.Limit(n) and builder.Offset(n) keep the number as text
Limit(query, n) == [query EXCEPT !.limit = FormatUint(n)]
Offset(query, n) == [query EXCEPT !.offset = FormatUint(n)]
\* builder.OrderBy(vals...): the tokens are appended verbatim
OrderBy(query, vals) == [query EXCEPT !.orderBys = @ \o vals]
\* builder.SetMap(squirrel.Eq{key: val}): one more SET clause
SetMap(query, key, val) ==
    [query EXCEPT !.set = Append(@, [column |-> key, value |-> val])]

\* squirrel appendToSql: the parts' texts separated by sep
WhereFrags(parts) ==
    Flatten(Join([i \in 1..Len(parts) |-> parts[i].frags], <<" AND ">>))
WhereArgs(parts) == Flatten([i \in 1..Len(parts) |-> parts[i].args])

\* the clauses with OFFSET written before LIMIT
TailFrags_offsetFirst(d) ==
    (IF d.where # <<>>
     THEN <<" WHERE ">>
          \o Flatten(Join([i \in 1..Len(d.where) |-> d.where[i].frags], <<" AND ">>))
     ELSE <<>>)
    \o (IF d.orderBys # <<>>
        THEN <<" ORDER BY ">> \o Join(d.orderBys, ", ") ELSE <<>>)
    \o (IF d.offset # "" THEN <<" OFFSET ", d.offset>> ELSE <<>>)
    \o (IF d.limit # "" THEN <<" LIMIT ", d.limit>> ELSE <<>>)

\* the WHERE, ORDER BY, LIMIT and OFFSET clauses, in squirrel's fixed order
TailFrags(d) ==
    (IF d.where # <<>> THEN <<" WHERE ">> \o WhereFrags(d.where) ELSE <<>>)
    \o (IF d.orderBys # <<>>
        THEN <<" ORDER BY ">> \o Join(d.orderBys, ", ") ELSE <<>>)
    \o (IF d.limit # "" THEN <<" LIMIT ", d.limit>> ELSE <<>>)
    \o (IF d.offset # "" THEN <<" OFFSET ", d.offset>> ELSE <<>>)

Statement(frags, args) ==
    [sql |-> Concat(frags), frags |-> frags, args |-> args, err |-> "",
     none |-> FALSE]
CompileError(msg) ==
    [sql |-> "", frags |-> <<>>, args |-> <<>>, err |-> msg, none |-> FALSE]

\* the SET clauses of an update: column = ? with the value as argument
SetFrags(set) ==
    Flatten(Join([i \in 1..Len(set) |-> <<set[i].column, " = ", "?">>],
                 <<", ">>))
SetArgs(set) == [i \in 1..Len(set) |-> set[i].value]

\* ToSql with the arguments of an update's WHERE clause before those of
\* its SET clauses
ToSql_whereArgsFirst(d) ==
    CASE d.kind = "select" ->
           Statement(<<"SELECT ", "*", " FROM ", d.table>> \o TailFrags(d),
                     WhereArgs(d.where))
      [] d.kind = "update" ->
           IF d.table = ""
           THEN CompileError("update statements must specify a table")
           ELSE IF d.set = <<>>
           THEN CompileError("update statements must have at least one Set clause")
           ELSE Statement(<<"UPDATE ", d.table, " SET ">> \o SetFrags(d.set)
                              \o TailFrags(d),
                          WhereArgs(d.where) \o SetArgs(d.set))
      [] d.kind = "delete" ->
           IF d.table = ""
           THEN CompileError("delete statements must specify a From table")
           ELSE Statement(<<"DELETE FROM ", d.table>> \o TailFrags(d),
                          WhereArgs(d.where))

\* SelectBuilder, UpdateBuilder and DeleteBuilder ToSql
ToSql(d) ==
    CASE d.kind = "select" ->
           Statement(<<"SELECT ", "*", " FROM ", d.table>> \o TailFrags(d),
                     WhereArgs(d.where))
      [] d.kind = "update" ->
           IF d.table = ""
           THEN CompileError("update statements must specify a table")
           ELSE IF d.set = <<>>
           THEN CompileError("update statements must have at least one Set clause")
           ELSE Statement(<<"UPDATE ", d.table, " SET ">> \o SetFrags(d.set)
                              \o TailFrags(d),
                          SetArgs(d.set) \o WhereArgs(d.where))
      [] d.kind = "delete" ->
           IF d.table = ""
           THEN CompileError("delete statements must specify a From table")
           ELSE Statement(<<"DELETE FROM ", d.table>> \o TailFrags(d),
                          WhereArgs(d.where))

-----------------------------------------------------------------------------
(* The compilers                                                           *)

\* the id predicate of the three compilers
WhereId(query, id) ==
    IF id # "" THEN Where(query, Eq("id", GoString(id))) ELSE query

\* one turn of buildSelectQuery's loop over the query map
selectKey(query, key, val) ==
    CASE key = "__limit__" ->
           (LET limit == Atoi(val[1])
            IN  IF limit.ok THEN Limit(query, uint64(limit.n)) ELSE query)
      [] key = "__offset__" ->
           (LET offset == Atoi(val[1])
            IN  IF offset.ok THEN Offset(query, uint64(offset.n)) ELSE query)
      [] key = "__order_by__" -> OrderBy(query, val)
      [] OTHER -> Where(query, Eq(key, GoStrings(val)))

\* one turn of the loop of buildUpdateQuery and of buildDeleteQuery
writeKey(query, key, val) ==
    CASE key = "__limit__" ->
           (LET limit == Atoi(val[1])
            IN  IF limit.ok THEN Limit(query, uint64(limit.n)) ELSE query)
      [] OTHER -> Where(query, Eq(key, GoStrings(val)))

\* buildSelectQuery's loop left after its first turn
selectLoop_firstKeyOnly(query, args, ord) ==
    IF ord = <<>> THEN query
    ELSE selectKey(query, Head(ord), args[Head(ord)])

RECURSIVE selectLoop(_, _, _)
selectLoop(query, args, ord) ==
    IF ord = <<>> THEN query
    ELSE selectLoop(selectKey(query, Head(ord), args[Head(ord)]), args, Tail(ord))

RECURSIVE writeLoop(_, _, _)
writeLoop(query, args, ord) ==
    IF ord = <<>> THEN query
    ELSE writeLoop(writeKey(query, Head(ord), args[Head(ord)]), args, Tail(ord))

RECURSIVE setLoop(_, _, _)
setLoop(query, values, vord) ==
    IF vord = <<>> THEN query
    ELSE setLoop(SetMap(query, Head(vord), values[Head(vord)]), values, Tail(vord))

\* buildSelectQuery; ord is the order the range loop visits the query keys
buildSelectQuery(r, ord) ==
    LET p == parseRequest(r)
    IN  ToSql(selectLoop(WhereId(NewBuilder("select", p.table), p.id),
                         p.args, ord))

\* buildUpdateQuery adding the id predicate after the filter predicates
buildUpdateQuery_idLast(r, values, vord, ord) ==
    LET p == parseRequest(r)
    IN  ToSql(WhereId(writeLoop(setLoop(NewBuilder("update", p.table),
                                        values, vord),
                                p.args, ord), p.id))

\* buildUpdateQuery; vord is the order the first loop visits the body's
\* keys, ord the order the second loop visits the query keys
buildUpdateQuery(r, values, vord, ord) ==
    LET p == parseRequest(r)
    IN  ToSql(writeLoop(WhereId(setLoop(NewBuilder("update", p.table),
                                        values, vord), p.id),
                        p.args, ord))

\* buildDeleteQuery without the case for __limit__
buildDeleteQuery_noLimit(r, ord) ==
    LET p == parseRequest(r)
        RECURSIVE filterLoop(_, _)
        filterLoop(query, o) ==
            IF o = <<>> THEN query
            ELSE filterLoop(Where(query, Eq(Head(o), GoStrings(p.args[Head(o)]))),
                            Tail(o))
    IN  ToSql(filterLoop(WhereId(NewBuilder("delete", p.table), p.id), ord))

\* buildDeleteQuery; ord is the order the range loop visits the query keys
buildDeleteQuery(r, ord) ==
    LET p == parseRequest(r)
    IN  ToSql(writeLoop(WhereId(NewBuilder("delete", p.table), p.id),
                        p.args, ord))

-----------------------------------------------------------------------------
(* Errors and handler results                                              *)

\* a Go error value: nil, or an error with a message
NilError == [isNil |-> TRUE, msg |-> ""]
GoError(msg) == [isNil |-> FALSE, msg |-> msg]

StatusOK == 200
StatusCreated == 201
StatusNoContent == 204
StatusBadRequest == 400
StatusNotFound == 404
StatusMethodNotAllowed == 405
StatusInternalServerError == 500

\* a nil *SqldError
NoSqldError == [isNil |-> TRUE, Code |-> 0, Err |-> ""]

\* NewError: a nil error is replaced by errors.New("")
NewError(e, code) ==
    [isNil |-> FALSE, Code |-> code, Err |-> IF e.isNil THEN "" ELSE e.msg]

BadRequest(e) == NewError(e, StatusBadRequest)
NotFound(e) == NewError(e, StatusNotFound)
InternalError(e) == NewError(e, StatusInternalServerError)

\* the nil interface{} payload
NilData == [kind |-> "nil"]
\* a []map[string]interface{} payload; a nil slice is not a nil interface{}
RowsData(isNil, rows) == [kind |-> "rows", isNil |-> isNil, rows |-> rows]
\* a map[string]interface{} payload
MapData(m) == [kind |-> "map", map |-> m]

\* what a handler returns, with the statements it handed to the database and
\* what its compiler answered (NoCompile when it did not get to compile)
NoCompile == [sql |-> "", frags |-> <<>>, args |-> <<>>, err |-> "", none |-> TRUE]
Result(d, e, sent) ==
    [data |-> d, err |-> e, stmts |-> sent, compiled |-> NoCompile]
Compiled(c, result) == [result EXCEPT !.compiled = c]

\* a statement handed to the database, with the answer the database gave
Stmt(op, sql, args, answer) ==
    [op |-> op, sql |-> sql, args |-> args, answer |-> answer]

-----------------------------------------------------------------------------
(* The database: what db.Query and db.Exec may answer                      *)

GoBytes(s) == [t |-> "[]byte", v |-> s]
GoInt64(s) == [t |-> "int64", v |-> s]

\* an answer of db.Query: an error, or a cursor with its columns, the rows it
\* yields, the row whose Scan fails (0 for none) and the error rows.Err()
\* reports at the end
QueryResult(e, columnsErr, columns, rows, scanErrAt, rowsErr) ==
    [err |-> e, columnsErr |-> columnsErr, columns |-> columns,
     rows |-> rows, scanErrAt |-> scanErrAt, rowsErr |-> rowsErr]

RowHi == <<GoBytes("hi"), GoBytes("there")>>
RowHow == <<GoInt64("7"), GoNil>>

QueryResults ==
    { QueryResult(GoError("syntax error"), NilError, <<>>, <<>>, 0, NilError),
      QueryResult(NilError, GoError("columns"), <<>>, <<>>, 0, NilError),
      QueryResult(NilError, NilError, <<"a", "b">>, <<>>, 0, NilError),
      QueryResult(NilError, NilError, <<"a", "b">>, <<RowHi>>, 0, NilError),
      QueryResult(NilError, NilError, <<"a", "b">>, <<RowHi, RowHow>>, 0, NilError),
      QueryResult(NilError, NilError, <<"a", "b">>, <<RowHi, RowHow>>, 2, NilError),
      QueryResult(NilError, NilError, <<"a", "b">>, <<RowHi>>, 0, GoError("rows")) }

\* an answer of db.Exec: an error, or a result with its affected-row count
\* and generated id, each of which the driver may fail to give
ExecResult(e, rows, rowsErr, id, idErr) ==
    [err |-> e, rowsAffected |-> rows, rowsAffectedErr |-> rowsErr,
     lastInsertId |-> id, lastInsertIdErr |-> idErr]

ExecResults ==
    { ExecResult(GoError("syntax error"), 0, NilError, 0, NilError) }
    \cup { ExecResult(NilError, n, NilError, 3, NilError) : n \in 0..MaxAffected }
    \cup { ExecResult(NilError, 0, GoError("no RowsAffected"), 0, NilError),
           ExecResult(NilError, 1, NilError, 0, GoError("no LastInsertId")) }

-----------------------------------------------------------------------------
(* The statement executor                                                  *)

\* readQuery's conversion of a scanned value: bytes become a string
\* readQuery without the conversion of bytes
scanValue_keepBytes(val) == val

scanValue(val) == IF val.t = "[]byte" THEN GoString(val.v) ELSE val

\* the rowData map readQuery builds from one scanned row: each column name
\* is bound to the value of the last column of that name
rowData(columns, values) ==
    [col \in {columns[i] : i \in DOMAIN columns} |->
        LET last == CHOOSE i \in DOMAIN columns :
                        /\ columns[i] = col
                        /\ \A j \in DOMAIN columns : columns[j] = col => j <= i
        IN  scanValue(values[last])]

\* readQuery with every rowData sharing the values buffer, which holds the
\* row scanned last
readQuery_sharedRow(sql, args, q) ==
    IF ~q.err.isNil THEN [data |-> NilData, err |-> q.err]
    ELSE IF ~q.columnsErr.isNil THEN [data |-> NilData, err |-> q.columnsErr]
    ELSE IF q.scanErrAt # 0 THEN [data |-> NilData, err |-> GoError("scan")]
    ELSE IF ~q.rowsErr.isNil THEN [data |-> NilData, err |-> q.rowsErr]
    ELSE [data |-> RowsData(q.rows = <<>>,
                            [i \in DOMAIN q.rows |->
                                rowData(q.columns, q.rows[Len(q.rows)])]),
          err  |-> NilError]

\* readQuery against the answer q of db.Query: (tableData, err)
readQuery(sql, args, q) ==
    IF ~q.err.isNil THEN [data |-> NilData, err |-> q.err]
    ELSE IF ~q.columnsErr.isNil THEN [data |-> NilData, err |-> q.columnsErr]
    ELSE IF q.scanErrAt # 0 THEN [data |-> NilData, err |-> GoError("scan")]
    ELSE IF ~q.rowsErr.isNil THEN [data |-> NilData, err |-> q.rowsErr]
    ELSE [data |-> RowsData(q.rows = <<>>,
                            [i \in DOMAIN q.rows |-> rowData(q.columns, q.rows[i])]),
          err  |-> NilError]

\* execQuery without the test for zero affected rows
execQuery_zeroIsSuccess(sql, args, res) ==
    LET sent == <<Stmt("Exec", sql, args, res)>>
    IN  IF ~res.err.isNil THEN Result(NilData, BadRequest(res.err), sent)
        ELSE IF ~res.rowsAffectedErr.isNil
        THEN Result(NilData, BadRequest(res.rowsAffectedErr), sent)
        ELSE Result(NilData, NoSqldError, sent)

\* execQuery against the answer res of db.Exec
execQuery(sql, args, res) ==
    LET sent == <<Stmt("Exec", sql, args, res)>>
    IN  IF ~res.err.isNil THEN Result(NilData, BadRequest(res.err), sent)
        ELSE IF ~res.rowsAffectedErr.isNil
        THEN Result(NilData, BadRequest(res.rowsAffectedErr), sent)
        ELSE IF res.rowsAffected = 0
        THEN Result(NilData, NotFound(NilError), sent)
        ELSE Result(NilData, NoSqldError, sent)

-----------------------------------------------------------------------------
(* Request bodies                                                          *)

\* a request body: one that cannot be read, one that is not JSON, or a JSON
\* null, scalar, array (list) or object (obj)
Body(kind, obj, list) == [kind |-> kind, obj |-> obj, list |-> list]

\* an element of a decoded JSON array: ok tells whether the type assertion
\* x.(map[string]interface{}) holds; m is the map when it does, v the value
\* when it does not
JsonObject(m) == [ok |-> TRUE, m |-> m, v |-> GoNil]
JsonOther(v) == [ok |-> FALSE, m |-> <<>>, v |-> v]
NoBody == Body("invalid", <<>>, <<>>)

\* json.Unmarshal(body, &data) for data interface{}: any JSON text decodes
DecodesToAny(body) == body.kind \in {"null", "scalar", "array", "object"}

\* json.Unmarshal(body, &data) for data map[string]interface{}: an object
\* decodes to its map, null leaves the map nil, anything else is an error
DecodesToMap(body) == body.kind \in {"null", "object"}
MapOf(body) == IF body.kind = "object" THEN body.obj ELSE <<>>

\* json.Unmarshal(body, &query) for query RawQuery: as for a map, and the
\* fields read and write must be strings (or null) when present
RawField(body, name) ==
    IF body.kind = "object" /\ name \in DOMAIN body.obj
           /\ body.obj[name].t = "string"
    THEN body.obj[name].v ELSE ""
DecodesToRawQuery(body) ==
    /\ DecodesToMap(body)
    /\ \A name \in {"read", "write"} \cap DOMAIN MapOf(body) :
           MapOf(body)[name].t \in {"string", "nil"}
RawQueryOf(body) ==
    [ReadQuery |-> RawField(body, "read"), WriteQuery |-> RawField(body, "write")]

-----------------------------------------------------------------------------
(* The handlers                                                            *)

\* read handles the GET request
read(r, ord, q) ==
    LET c == buildSelectQuery(r, ord)
    IN  Compiled(c,
          IF c.err # "" THEN Result(NilData, BadRequest(GoError(c.err)), <<>>)
          ELSE LET t == readQuery(c.sql, c.args, q)
                   sent == <<Stmt("Query", c.sql, c.args, q)>>
               IN  IF ~t.err.isNil THEN Result(NilData, InternalError(t.err), sent)
                   ELSE Result(t.data, NoSqldError, sent))

\* squirrel InsertBuilder.ToSql for one row of values
insertToSql(table, columns, values) ==
    IF table = ""
    THEN CompileError("insert statements must specify a table")
    ELSE Statement(<<"INSERT INTO ", table, " ">>
                       \o (IF columns # <<>>
                           THEN <<"(">> \o Join(columns, ",") \o <<") ">>
                           ELSE <<>>)
                       \o <<"VALUES (">> \o Placeholders(Len(values)) \o <<")">>,
                   values)

\* item["id"] = id
WithId(item, id) ==
    [c \in DOMAIN item \cup {"id"} |-> IF c = "id" THEN GoInt64(Itoa(id)) ELSE item[c]]

\* createSingle; cord is the order the range loop visits the item's keys.
\* The error of ToSql is overwritten by the one of db.Exec, so the statement
\* text is handed to db.Exec whatever ToSql answered.
\* createSingle binding each column to the value of the column at the
\* mirrored position
createSingle_valuesReversed(table, item, cord, res) ==
    LET columns == cord
        values  == [i \in DOMAIN cord |-> item[cord[Len(cord) + 1 - i]]]
        c       == insertToSql(table, columns, values)
        sent    == <<Stmt("Exec", c.sql, c.args, res)>>
    IN  IF ~res.err.isNil
        THEN [item |-> <<>>, err |-> res.err, stmts |-> sent, compiled |-> c]
        ELSE IF ~res.lastInsertIdErr.isNil
        THEN [item |-> <<>>, err |-> res.lastInsertIdErr, stmts |-> sent,
              compiled |-> c]
        ELSE [item |-> WithId(item, res.lastInsertId), err |-> NilError,
              stmts |-> sent, compiled |-> c]

createSingle(table, item, cord, res) ==
    LET columns == cord
        values  == [i \in DOMAIN cord |-> item[cord[i]]]
        c       == insertToSql(table, columns, values)
        sent    == <<Stmt("Exec", c.sql, c.args, res)>>
    IN  IF ~res.err.isNil
        THEN [item |-> <<>>, err |-> res.err, stmts |-> sent, compiled |-> c]
        ELSE IF ~res.lastInsertIdErr.isNil
        THEN [item |-> <<>>, err |-> res.lastInsertIdErr, stmts |-> sent,
              compiled |-> c]
        ELSE [item |-> WithId(item, res.lastInsertId), err |-> NilError,
              stmts |-> sent, compiled |-> c]

\* create inserting the first element of an array body
create_arrayAsFirst(r, cord, res) ==
    IF r.body.kind = "unreadable"
    THEN Result(NilData, BadRequest(GoError("read")), <<>>)
    ELSE IF ~DecodesToAny(r.body)
    THEN Result(NilData, BadRequest(GoError("invalid character")), <<>>)
    ELSE IF r.body.kind = "object"
            \/ (r.body.kind = "array" /\ r.body.list # <<>> /\ r.body.list[1].ok)
    THEN LET item == IF r.body.kind = "object" THEN r.body.obj ELSE r.body.list[1].m
             saved == createSingle(parseRequest(r).table, item,
                                   IF r.body.kind = "object" THEN cord
                                   ELSE CHOOSE o \in Perms(DOMAIN item) : TRUE,
                                   res)
         IN  Compiled(saved.compiled,
               IF ~saved.err.isNil
               THEN Result(NilData, InternalError(saved.err), saved.stmts)
               ELSE Result(MapData(saved.item), NoSqldError, saved.stmts))
    ELSE Result(NilData, BadRequest(NilError), <<>>)

\* create handles the POST method
create(r, cord, res) ==
    IF r.body.kind = "unreadable"
    THEN Result(NilData, BadRequest(GoError("read")), <<>>)
    ELSE IF ~DecodesToAny(r.body)
    THEN Result(NilData, BadRequest(GoError("invalid character")), <<>>)
    ELSE IF r.body.kind = "object"
    THEN LET saved == createSingle(parseRequest(r).table, r.body.obj, cord, res)
         IN  Compiled(saved.compiled,
               IF ~saved.err.isNil
               THEN Result(NilData, InternalError(saved.err), saved.stmts)
               ELSE Result(MapData(saved.item), NoSqldError, saved.stmts))
    ELSE Result(NilData, BadRequest(NilError), <<>>)

\* update handing the statement to execQuery whatever ToSql answered
update_compileErrorIgnored(r, vord, ord, res) ==
    IF r.body.kind = "unreadable"
    THEN Result(NilData, BadRequest(GoError("read")), <<>>)
    ELSE IF ~DecodesToMap(r.body)
    THEN Result(NilData, BadRequest(GoError("invalid character")), <<>>)
    ELSE LET c == buildUpdateQuery(r, MapOf(r.body), vord, ord)
         IN  Compiled(c, execQuery(c.sql, c.args, res))

\* update handles the PUT method
update(r, vord, ord, res) ==
    IF r.body.kind = "unreadable"
    THEN Result(NilData, BadRequest(GoError("read")), <<>>)
    ELSE IF ~DecodesToMap(r.body)
    THEN Result(NilData, BadRequest(GoError("invalid character")), <<>>)
    ELSE LET c == buildUpdateQuery(r, MapOf(r.body), vord, ord)
         IN  Compiled(c,
               IF c.err # "" THEN Result(NilData, BadRequest(GoError(c.err)), <<>>)
               ELSE execQuery(c.sql, c.args, res))

\* del handles the DELETE method
del(r, ord, res) ==
    LET c == buildDeleteQuery(r, ord)
    IN  Compiled(c,
          IF c.err # "" THEN Result(NilData, BadRequest(GoError(c.err)), <<>>)
          ELSE execQuery(c.sql, c.args, res))

\* raw reporting a failed read statement as an internal error, as read does
raw_readErrorInternal(r, q, res) ==
    IF r.body.kind = "unreadable"
    THEN Result(NilData, BadRequest(GoError("read")), <<>>)
    ELSE IF ~DecodesToRawQuery(r.body)
    THEN Result(NilData, BadRequest(GoError("invalid character")), <<>>)
    ELSE LET query == RawQueryOf(r.body)
         IN  IF query.ReadQuery # ""
             THEN LET t == readQuery(query.ReadQuery, <<>>, q)
                      sent == <<Stmt("Query", query.ReadQuery, <<>>, q)>>
                  IN  IF ~t.err.isNil
                      THEN Result(NilData, InternalError(t.err), sent)
                      ELSE Result(t.data, NoSqldError, sent)
             ELSE IF query.WriteQuery # ""
             THEN LET sent == <<Stmt("Exec", query.WriteQuery, <<>>, res)>>
                  IN  IF ~res.err.isNil
                      THEN Result(NilData, BadRequest(res.err), sent)
                      ELSE Result(MapData([last_insert_id |-> GoInt64(Itoa(res.lastInsertId)),
                                           rows_affected |-> GoInt64(Itoa(res.rowsAffected))]),
                                  NoSqldError, sent)
             ELSE Result(NilData, BadRequest(NilError), <<>>)

\* raw running the write statement after the read statement when the body
\* has both
raw_readThenWrite(r, q, res) ==
    IF r.body.kind = "unreadable"
    THEN Result(NilData, BadRequest(GoError("read")), <<>>)
    ELSE IF ~DecodesToRawQuery(r.body)
    THEN Result(NilData, BadRequest(GoError("invalid character")), <<>>)
    ELSE LET query == RawQueryOf(r.body)
             wrote == IF query.WriteQuery # ""
                      THEN <<Stmt("Exec", query.WriteQuery, <<>>, res)>> ELSE <<>>
         IN  IF query.ReadQuery # ""
             THEN LET t == readQuery(query.ReadQuery, <<>>, q)
                      sent == <<Stmt("Query", query.ReadQuery, <<>>, q)>>
                  IN  IF ~t.err.isNil
                      THEN Result(NilData, BadRequest(t.err), sent)
                      ELSE Result(t.data, NoSqldError, sent \o wrote)
             ELSE IF query.WriteQuery # ""
             THEN IF ~res.err.isNil
                  THEN Result(NilData, BadRequest(res.err), wrote)
                  ELSE Result(MapData([last_insert_id |-> GoInt64(Itoa(res.lastInsertId)),
                                       rows_affected |-> GoInt64(Itoa(res.rowsAffected))]),
                              NoSqldError, wrote)
             ELSE Result(NilData, BadRequest(NilError), <<>>)

\* raw runs the read or the write statement of the body verbatim
raw(r, q, res) ==
    IF r.body.kind = "unreadable"
    THEN Result(NilData, BadRequest(GoError("read")), <<>>)
    ELSE IF ~DecodesToRawQuery(r.body)
    THEN Result(NilData, BadRequest(GoError("invalid character")), <<>>)
    ELSE LET query == RawQueryOf(r.body)
         IN  IF query.ReadQuery # ""
             THEN LET t == readQuery(query.ReadQuery, <<>>, q)
                      sent == <<Stmt("Query", query.ReadQuery, <<>>, q)>>
                  IN  IF ~t.err.isNil
                      THEN Result(NilData, BadRequest(t.err), sent)
                      ELSE Result(t.data, NoSqldError, sent)
             ELSE IF query.WriteQuery # ""
             THEN LET sent == <<Stmt("Exec", query.WriteQuery, <<>>, res)>>
                  IN  IF ~res.err.isNil
                      THEN Result(NilData, BadRequest(res.err), sent)
                      ELSE Result(MapData([last_insert_id |-> GoInt64(Itoa(res.lastInsertId)),
                                           rows_affected |-> GoInt64(Itoa(res.rowsAffected))]),
                                  NoSqldError, sent)
             ELSE Result(NilData, BadRequest(NilError), <<>>)

-----------------------------------------------------------------------------
(* handleQuery                                                             *)

\* the response written with 200 for every payload
Render_alwaysOK(out, status) ==
    IF out.err.isNil /\ out.data.kind = "nil"
    THEN [status |-> StatusNoContent, body |-> "", data |-> NilData, json |-> FALSE]
    ELSE IF ~out.err.isNil
    THEN [status |-> out.err.Code, body |-> out.err.Err \o "\n",
          data |-> NilData, json |-> FALSE]
    ELSE [status |-> StatusOK, body |-> "", data |-> out.data, json |-> TRUE]

\* the three ways handleQuery writes the response
Render(out, status) ==
    IF out.err.isNil /\ out.data.kind = "nil"
    THEN [status |-> StatusNoContent, body |-> "", data |-> NilData, json |-> FALSE]
    ELSE IF ~out.err.isNil
    THEN [status |-> out.err.Code, body |-> out.err.Err \o "\n",
          data |-> NilData, json |-> FALSE]
    ELSE [status |-> status, body |-> "", data |-> out.data, json |-> TRUE]

NoResponse == [status |-> 0, body |-> "", data |-> NilData, json |-> FALSE]

\* createMany is not running: no unit, both mutexes unlocked, the process up
NoBatch ==
    /\ spawned = 0
    /\ units = <<>>
    /\ wg = 0
    /\ errMutex = 0
    /\ itemMutex = 0
    /\ errors = <<>>
    /\ items = <<>>
    /\ crashed = FALSE

\* no table is modelled and no request has been answered
NoStore ==
    /\ store = <<>>
    /\ served = <<>>

\* r.URL.Path == "/"
IsRootPath(r) == r.path = <<"", "">>

\* the end of handleQuery: the handler's outcome is rendered
Answer(name, out, status) ==
    /\ handler' = name
    /\ compiled' = out.compiled
    /\ stmts' = out.stmts
    /\ data' = out.data
    /\ err' = out.err
    /\ resp' = Render(out, status)
    /\ pc' = "responded"
    /\ UNCHANGED <<url, allowRaw, req>>
    /\ UNCHANGED manyVars

\* a request answered with the database's answers chosen freely
Respond(name, out, status) ==
    /\ Answer(name, out, status)
    /\ UNCHANGED storeVars

\* POST on the root path with -raw
handleRaw ==
    /\ pc = "received" /\ IsRootPath(req)
    /\ allowRaw /\ req.method = "POST"
    /\ \E q \in QueryResults, res \in ExecResults :
           Respond("raw", raw(req, q, res), StatusOK)

\* any other request on the root path
handleRoot ==
    /\ pc = "received" /\ IsRootPath(req)
    /\ ~(allowRaw /\ req.method = "POST")
    /\ Respond("none", Result(NilData, BadRequest(NilError), <<>>), StatusOK)

handleGet ==
    /\ pc = "received" /\ ~IsRootPath(req)
    /\ req.method = "GET"
    /\ \E ord \in Perms(DOMAIN req.query), q \in QueryResults :
           Respond("read", read(req, ord, q), StatusOK)

\* the POST case reached without the test of the root path
handlePost_onRoot ==
    /\ pc = "received"
    /\ req.method = "POST"
    /\ \E cord \in Perms(DOMAIN MapOf(req.body)), res \in ExecResults :
           Respond("create", create(req, cord, res), StatusCreated)

handlePost ==
    /\ pc = "received" /\ ~IsRootPath(req)
    /\ req.method = "POST"
    /\ \E cord \in Perms(DOMAIN MapOf(req.body)), res \in ExecResults :
           Respond("create", create(req, cord, res), StatusCreated)

handlePut ==
    /\ pc = "received" /\ ~IsRootPath(req)
    /\ req.method = "PUT"
    /\ \E vord \in Perms(DOMAIN MapOf(req.body)),
          ord \in Perms(DOMAIN req.query), res \in ExecResults :
           Respond("update", update(req, vord, ord, res), StatusOK)

handleDelete ==
    /\ pc = "received" /\ ~IsRootPath(req)
    /\ req.method = "DELETE"
    /\ \E ord \in Perms(DOMAIN req.query), res \in ExecResults :
           Respond("del", del(req, ord, res), StatusOK)

\* the default case of the method switch
handleOther ==
    /\ pc = "received" /\ ~IsRootPath(req)
    /\ req.method \notin {"GET", "POST", "PUT", "DELETE"}
    /\ Respond("none",
               Result(NilData, NewError(NilError, StatusMethodNotAllowed), <<>>),
               StatusOK)

handleQuery ==
    \/ handleRaw
    \/ handleRoot
    \/ handleGet
    \/ handlePost
    \/ handlePut
    \/ handleDelete
    \/ handleOther

-----------------------------------------------------------------------------
(* The requests served                                                     *)

Methods == {"GET", "POST", "PUT", "DELETE", "PATCH"}

\* the values of the -url flag
UrlFlags == {<<"", "">>, <<"api">>}

\* the paths below the url prefix: the prefix itself, /user, /user/ and
\* /user/8
RelPaths == {<<"">>, <<"user">>, <<"user", "">>, <<"user", "8">>}

\* the url prefix u followed by the relative path rel
PathUnder(u, rel) == SubSeq(u, 1, Len(u) - 1) \o rel

QueryKeys == {"name", "age", "__limit__", "__offset__", "__order_by__"}

\* the values a query key is sent with
QueryVals(k) ==
    CASE k = "name" -> {<<"jim">>, <<"jill">>, <<"jill", "jim">>}
      [] k = "age" -> {<<"66">>}
      [] k = "__limit__" -> {<<"5">>, <<"100">>, <<"abc">>, <<"-5">>}
      [] k = "__offset__" -> {<<"200">>, <<"x">>}
      [] k = "__order_by__" -> {<<"name desc", "id">>}

\* r.URL.Query(): a map from some of the keys to their values
Queries ==
    UNION { {q \in [K -> UNION {QueryVals(k) : k \in K}] :
                 \A k \in K : q[k] \in QueryVals(k)} :
            K \in {S \in SUBSET QueryKeys : Cardinality(S) <= MaxKeys} }

\* the JSON objects sent as rows
RowObjects ==
    { [name |-> GoString("jack")],
      [age |-> GoNumber("66")],
      [name |-> GoString("jack"), age |-> GoNumber("66")],
      <<>> }

\* the JSON objects sent as raw queries
RawObjects ==
    { [read |-> GoString("SELECT * FROM t1")],
      [write |-> GoString("INSERT INTO t1 (a, b) VALUES ('more', 'words')")],
      [read |-> GoString("SELECT * FROM t1"), write |-> GoString("DELETE FROM t1")],
      [read |-> GoNumber("1")],
      [invalid |-> GoString("SELECT * FROM t1")] }

\* the bodies that are not JSON objects
OtherBodies ==
    { Body("unreadable", <<>>, <<>>), Body("invalid", <<>>, <<>>),
      Body("null", <<>>, <<>>), Body("scalar", <<>>, <<>>),
      Body("array", <<>>, <<JsonObject([name |-> GoString("jack")])>>) }

RowBodies == OtherBodies \cup { Body("object", o, <<>>) : o \in RowObjects }
Bodies == RowBodies \cup { Body("object", o, <<>>) : o \in RawObjects }

Request(method, path, query, body) ==
    [method |-> method, path |-> path, query |-> query, body |-> body]

\* the requests under the prefix u.  Only create, update and raw read the
\* body, only read, update and del read the query, and raw queries are
\* sent by POST.
Requests(u) ==
    { Request(m, PathUnder(u, rel), q, b) :
        m \in {"GET", "DELETE"}, rel \in RelPaths, q \in Queries, b \in {NoBody} }
    \cup { Request("PUT", PathUnder(u, rel), q, b) :
        rel \in RelPaths, q \in Queries, b \in RowBodies }
    \cup { Request(m, PathUnder(u, rel), q, b) :
        m \in {"POST", "PATCH"}, rel \in RelPaths, q \in {<<>>}, b \in Bodies }

-----------------------------------------------------------------------------
(* The server: one request through handleQuery                             *)

Init ==
    /\ url \in {handleFlags(f) : f \in UrlFlags}
    /\ allowRaw \in BOOLEAN
    /\ req \in Requests(url)
    /\ pc = "received"
    /\ handler = "none"
    /\ compiled = NoCompile
    /\ stmts = <<>>
    /\ data = NilData
    /\ err = NoSqldError
    /\ resp = NoResponse
    /\ NoBatch
    /\ NoStore

Next == handleQuery

vars == <<httpVars, manyVars, storeVars>>

Spec == Init /\ [][Next]_vars

-----------------------------------------------------------------------------
(* createMany: a POST whose body is a JSON array.  The coordinator starts  *)
(* one goroutine per element and waits on a sync.WaitGroup; each unit      *)
(* inserts its element with createSingle and appends the outcome to one of *)
(* two slices, each under its own mutex.                                   *)

\* the table create names: strings.Split(r.URL.Path, "/")[1]
tableOf(r) == r.path[2]

\* the list create hands to createMany
listOf(r) == r.body.list

\* a unit: its position and the locals item and err of its goroutine
Unit(at, item, e) == [pc |-> at, item |-> item, err |-> e]
NotStarted == Unit("unborn", <<>>, NilError)

\* the rows the database has stored: one per insert it executed
StoredRows == Cardinality({k \in DOMAIN stmts : stmts[k].answer.err.isNil})

\* what db.Exec of an insert may answer: an error, the stored row with the
\* next id, or the stored row and a driver that gives no LastInsertId
InsertResults ==
    { ExecResult(GoError("syntax error"), 0, NilError, 0, NilError),
      ExecResult(NilError, 1, NilError, StoredRows + 1, NilError),
      ExecResult(NilError, 1, NilError, 0, GoError("no LastInsertId")) }

\* handleQuery sends the POST to create, which decodes the array and calls
\* createMany; createMany declares wg, errors and the mutexes and makes items
createManyBegin ==
    /\ pc = "received" /\ ~crashed
    /\ req.method = "POST" /\ req.body.kind = "array"
    /\ handler' = "create"
    /\ pc' = "spawning"
    /\ spawned' = 0
    /\ units' = [i \in 1..Len(listOf(req)) |-> NotStarted]
    /\ wg' = 0
    /\ errMutex' = 0
    /\ itemMutex' = 0
    /\ errors' = <<>>
    /\ items' = <<>>
    /\ UNCHANGED <<url, allowRaw, req, compiled, stmts, data, err, resp, crashed, storeVars>>

\* one turn of the range loop: wg.Add(1) and the go statement
spawn ==
    /\ pc = "spawning" /\ ~crashed
    /\ spawned < Len(listOf(req))
    /\ wg' = wg + 1
    /\ units' = [units EXCEPT ![spawned + 1].pc = "start"]
    /\ spawned' = spawned + 1
    /\ UNCHANGED <<httpVars, errMutex, itemMutex, errors, items, crashed, storeVars>>

\* a unit whose element is an object: the type assertion holds and
\* createSingle inserts the element
unitCreateSingle ==
    \E i \in DOMAIN units :
        /\ ~crashed
        /\ units[i].pc = "start"
        /\ listOf(req)[i].ok
        /\ \E cord \in Perms(DOMAIN listOf(req)[i].m), res \in InsertResults :
             LET out == createSingle(tableOf(req), listOf(req)[i].m, cord, res)
             IN  /\ stmts' = stmts \o out.stmts
                 /\ units' = [units EXCEPT ![i] =
                        Unit(IF ~out.err.isNil THEN "lockErr" ELSE "lockItem",
                             out.item, out.err)]
        /\ UNCHANGED <<url, allowRaw, req, pc, handler, compiled, data, err, resp, storeVars>>
        /\ UNCHANGED <<spawned, wg, errMutex, itemMutex, errors, items, crashed>>

\* a unit whose element is not an object: the single-valued type assertion
\* list[i].(map[string]interface{}) panics, and the goroutine starts to
\* unwind with its deferred call pending
unitPanic ==
    \E i \in DOMAIN units :
        /\ ~crashed
        /\ units[i].pc = "start"
        /\ ~listOf(req)[i].ok
        /\ units' = [units EXCEPT ![i].pc = "panicking"]
        /\ UNCHANGED <<httpVars, spawned, wg, errMutex, itemMutex, errors, items, crashed, storeVars>>

\* errMutex.Lock() or itemMutex.Lock(): blocks while another unit holds it
unitLock ==
    \E i \in DOMAIN units :
        /\ ~crashed
        /\ \/ /\ units[i].pc = "lockErr"
              /\ errMutex = 0
              /\ errMutex' = i
              /\ units' = [units EXCEPT ![i].pc = "appendErr"]
              /\ UNCHANGED itemMutex
           \/ /\ units[i].pc = "lockItem"
              /\ itemMutex = 0
              /\ itemMutex' = i
              /\ units' = [units EXCEPT ![i].pc = "appendItem"]
              /\ UNCHANGED errMutex
        /\ UNCHANGED <<httpVars, spawned, wg, errors, items, crashed, storeVars>>

\* the append and the Unlock() that follows it
unitAppend ==
    \E i \in DOMAIN units :
        /\ ~crashed
        /\ \/ /\ units[i].pc = "appendErr"
              /\ errors' = Append(errors, units[i].err)
              /\ errMutex' = 0
              /\ UNCHANGED <<items, itemMutex>>
           \/ /\ units[i].pc = "appendItem"
              /\ items' = Append(items, units[i].item)
              /\ itemMutex' = 0
              /\ UNCHANGED <<errors, errMutex>>
        /\ units' = [units EXCEPT ![i].pc = "exiting"]
        /\ UNCHANGED <<httpVars, spawned, wg, crashed, storeVars>>

\* the deferred wg.Done(), run when the function returns and when it panics
unitDone ==
    \E i \in DOMAIN units :
        /\ ~crashed
        /\ units[i].pc \in {"exiting", "panicking"}
        /\ wg' = wg - 1
        /\ units' = [units EXCEPT ![i].pc =
                        IF units[i].pc = "exiting" THEN "done" ELSE "unwound"]
        /\ UNCHANGED <<httpVars, spawned, errMutex, itemMutex, errors, items, crashed, storeVars>>

\* nothing recovers the panic of a goroutine: once its deferred calls have
\* run the runtime ends the process
crash ==
    \E i \in DOMAIN units :
        /\ ~crashed
        /\ units[i].pc = "unwound"
        /\ crashed' = TRUE
        /\ UNCHANGED <<httpVars, spawned, units, wg, errMutex, itemMutex, errors, items, storeVars>>

\* wg.Wait() without the barrier
wait_noBarrier ==
    /\ pc = "spawning" /\ ~crashed
    /\ spawned = Len(listOf(req))
    /\ pc' = "returned"
    /\ UNCHANGED <<url, allowRaw, req, handler, compiled, stmts, data, err, resp, storeVars>>
    /\ UNCHANGED manyVars

\* the end of the range loop, wg.Wait() and return items, errors
wait ==
    /\ pc = "spawning" /\ ~crashed
    /\ spawned = Len(listOf(req))
    /\ wg = 0
    /\ pc' = "returned"
    /\ UNCHANGED <<url, allowRaw, req, handler, compiled, stmts, data, err, resp, storeVars>>
    /\ UNCHANGED manyVars

\* the payload create builds from what createMany returned
manyPayload(manySaved, errs) ==
    IF Len(errs) = 0
    THEN RowsData(FALSE, manySaved)
    ELSE MapData([errors |-> errs, objects |-> manySaved])

\* create returns the payload and handleQuery writes it
createReturn ==
    /\ pc = "returned" /\ ~crashed
    /\ LET out == Result(manyPayload(items, errors), NoSqldError, stmts)
       IN  /\ data' = out.data
           /\ err' = out.err
           /\ resp' = Render(out, StatusOK)
    /\ pc' = "responded"
    /\ UNCHANGED <<url, allowRaw, req, handler, compiled, stmts, storeVars>>
    /\ UNCHANGED manyVars

\* the elements of the arrays sent
ListItems ==
    { JsonObject([name |-> GoString("jack")]),
      JsonOther(GoNumber("5")) }

\* the arrays of up to MaxItems elements
Lists == UNION { [1..n -> ListItems] : n \in 0..MaxItems }

\* a POST of an array to the table t1
InitMany ==
    /\ url = handleFlags(<<"", "">>)
    /\ allowRaw = FALSE
    /\ req \in { Request("POST", <<"", "t1">>, <<>>, Body("array", <<>>, l)) :
                    l \in Lists }
    /\ pc = "received"
    /\ handler = "none"
    /\ compiled = NoCompile
    /\ stmts = <<>>
    /\ data = NilData
    /\ err = NoSqldError
    /\ resp = NoResponse
    /\ NoBatch
    /\ NoStore

NextMany ==
    \/ createManyBegin
    \/ spawn
    \/ unitCreateSingle
    \/ unitPanic
    \/ unitLock
    \/ unitAppend
    \/ unitDone
    \/ crash
    \/ wait
    \/ createReturn

SpecMany == InitMany /\ [][NextMany]_vars

-----------------------------------------------------------------------------
(* Requests served one after another against a stored table.  The database *)
(* holds the table user(id, name, age), gives a new row the next id, keeps *)
(* the values bound to the columns, compares a bound text with a column    *)
(* after converting it to the column's type (so by their texts), scans the *)
(* rows in rowid order and hands a text back as bytes.                     *)

StoreTable == "user"
StoreColumns == <<"id", "name", "age">>

\* the positions of the placeholders in a statement's text, in text order
PlaceholderPositions(frags) ==
    LET IsPlaceholder(i) == frags[i] = "?"
    IN  SelectSeq([i \in 1..Len(frags) |-> i], IsPlaceholder)

\* a column of a predicate or of a SET clause stands right before = or IN (
IsColumnAt(frags, k) == k < Len(frags) /\ frags[k + 1] \in {" = ", " IN ("}

\* the position of the column the placeholder at position j is compared with
ColumnBefore(frags, j) ==
    CHOOSE k \in 1..j :
        /\ IsColumnAt(frags, k)
        /\ \A k2 \in (k + 1)..j : ~IsColumnAt(frags, k2)

\* the number written after the word LIMIT or OFFSET, none when absent
ClauseNumber(frags, word) ==
    IF \E k \in 1..(Len(frags) - 1) : frags[k] = word
    THEN Atoi(frags[1 + CHOOSE k \in 1..(Len(frags) - 1) : frags[k] = word])
    ELSE [ok |-> FALSE, n |-> 0]

\* the WHERE clause holds of a stored row: for each of its columns the row's
\* value is not NULL and is one of the arguments bound for that column
Matches(row, frags, args) ==
    LET at == PlaceholderPositions(frags)
    IN  \A k \in {k \in 1..Len(frags) : IsColumnAt(frags, k)} :
            \E i \in 1..Len(at) :
                /\ ColumnBefore(frags, at[i]) = k
                /\ row[frags[k]].t # "nil"
                /\ row[frags[k]].v = args[i].v

\* a stored value as the driver hands it to Scan: a text as bytes
AsScanned(val) == IF val.t = "string" THEN GoBytes(val.v) ELSE val

\* db.Query of a compiled SELECT * FROM ... against the stored rows
storeQuery(rows, c) ==
    LET frags == c.frags
        known == {StoreColumns[i] : i \in DOMAIN StoreColumns}
        Selected(row) == Matches(row, frags, c.args)
        hits == SelectSeq(rows, Selected)
        offset == ClauseNumber(frags, " OFFSET ")
        limit == ClauseNumber(frags, " LIMIT ")
        from == IF offset.ok THEN offset.n + 1 ELSE 1
        rest == SubSeq(hits, from, Len(hits))
        page == IF limit.ok /\ limit.n < Len(rest) THEN SubSeq(rest, 1, limit.n)
                ELSE rest
    IN  IF Len(frags) < 4 \/ frags[4] # StoreTable
        THEN QueryResult(GoError("no such table"), NilError, <<>>, <<>>, 0, NilError)
        ELSE IF \E k \in 1..Len(frags) : IsColumnAt(frags, k) /\ frags[k] \notin known
        THEN QueryResult(GoError("no such column"), NilError, <<>>, <<>>, 0, NilError)
        ELSE QueryResult(NilError, NilError, StoreColumns,
                 [i \in 1..Len(page) |->
                     [j \in 1..Len(StoreColumns) |-> AsScanned(page[i][StoreColumns[j]])]],
                 0, NilError)

\* the columns an INSERT INTO t (c1,c2) VALUES (?,?) lists
InsertColumns(frags) ==
    IF \E m \in 1..Len(frags) : frags[m] = ") "
    THEN LET close == CHOOSE m \in 1..Len(frags) : frags[m] = ") "
         IN  [i \in 1..((close - 4) \div 2) |-> frags[3 + 2 * i]]
    ELSE <<>>

\* the row an INSERT stores: the values bound to the listed columns, NULL in
\* the others, and the next id when none is given
InsertedRow(rows, frags, args) ==
    LET cols == InsertColumns(frags)
    IN  [col \in {StoreColumns[i] : i \in DOMAIN StoreColumns} |->
            IF \E i \in 1..Len(cols) : cols[i] = col
            THEN args[CHOOSE i \in 1..Len(cols) : cols[i] = col]
            ELSE IF col = "id" THEN GoInt64(Itoa(Len(rows) + 1))
            ELSE GoNil]

\* db.Exec of a compiled INSERT against the stored rows: the answer and the
\* rows stored afterwards.  A driver without LastInsertId stores the row too.
storeExec(rows, c) ==
    LET cols == InsertColumns(c.frags)
        known == {StoreColumns[i] : i \in DOMAIN StoreColumns}
        row == InsertedRow(rows, c.frags, c.args)
    IN  IF Len(c.frags) < 2 \/ c.frags[2] # StoreTable
        THEN {[answer |-> ExecResult(GoError("no such table"), 0, NilError, 0, NilError),
               rows |-> rows]}
        ELSE IF cols = <<>> \/ \E i \in 1..Len(cols) : cols[i] \notin known
        THEN {[answer |-> ExecResult(GoError("syntax error"), 0, NilError, 0, NilError),
               rows |-> rows]}
        ELSE {[answer |-> ExecResult(NilError, 1, NilError, Len(rows) + 1, NilError),
               rows |-> Append(rows, row)],
              [answer |-> ExecResult(NilError, 1, NilError, 0, GoError("no LastInsertId")),
               rows |-> Append(rows, row)]}

\* the database cannot be reached
QueryRefused ==
    QueryResult(GoError("connection refused"), NilError, <<>>, <<>>, 0, NilError)
ExecRefused == ExecResult(GoError("connection refused"), 0, NilError, 0, NilError)

\* an answered request: the rows stored when it arrived and what the handler
\* returned
Served(r, rows, out) == [req |-> r, store |-> rows, data |-> out.data, err |-> out.err]

\* a GET on a table path, answered from the stored rows
serveRead ==
    /\ pc = "received" /\ ~IsRootPath(req)
    /\ req.method = "GET"
    /\ \E ord \in Perms(DOMAIN req.query) :
         \E q \in {storeQuery(store, buildSelectQuery(req, ord)), QueryRefused} :
           LET out == read(req, ord, q)
           IN  /\ Answer("read", out, StatusOK)
               /\ served' = Append(served, Served(req, store, out))
    /\ UNCHANGED store

\* a POST on a table path: the insert is run against the stored rows
serveCreate ==
    /\ pc = "received" /\ ~IsRootPath(req)
    /\ req.method = "POST"
    /\ \E cord \in Perms(DOMAIN MapOf(req.body)) :
         LET sent == create(req, cord, ExecRefused)
         IN  \E x \in (IF sent.stmts = <<>> THEN {[answer |-> ExecRefused, rows |-> store]}
                       ELSE storeExec(store, sent.compiled)
                            \cup {[answer |-> ExecRefused, rows |-> store]}) :
               LET out == create(req, cord, x.answer)
               IN  /\ Answer("create", out, StatusCreated)
                   /\ served' = Append(served, Served(req, store, out))
                   /\ store' = x.rows

\* the requests sent to the table: reads with no, one and two filter keys,
\* a key of two values and a limit, and objects of one and two columns
StoreRequests ==
    { Request("GET", <<"", StoreTable>>, q, NoBody) :
        q \in { <<>>,
                [name |-> <<"jack">>],
                [age |-> <<"66">>],
                [name |-> <<"jack">>, age |-> <<"66">>],
                [name |-> <<"jill", "jack">>],
                [__limit__ |-> <<"1">>] } }
    \cup { Request("POST", <<"", StoreTable>>, <<>>, Body("object", o, <<>>)) :
        o \in { [name |-> GoString("jack")],
                [name |-> GoString("jack"), age |-> GoNumber("66")],
                [name |-> GoString("jill"), age |-> GoNumber("7")] } }

\* the server hands the next request to a new call of handleQuery
accept ==
    /\ pc \in {"idle", "responded"}
    /\ Len(served) < MaxRequests
    /\ req' \in StoreRequests
    /\ pc' = "received"
    /\ handler' = "none"
    /\ compiled' = NoCompile
    /\ stmts' = <<>>
    /\ data' = NilData
    /\ err' = NoSqldError
    /\ resp' = NoResponse
    /\ UNCHANGED <<url, allowRaw, manyVars, storeVars>>

\* the server is up with a table of no row or of one row, nothing received
InitStore ==
    /\ url = handleFlags(<<"", "">>)
    /\ allowRaw = FALSE
    /\ req = Request("", <<>>, <<>>, NoBody)
    /\ pc = "idle"
    /\ handler = "none"
    /\ compiled = NoCompile
    /\ stmts = <<>>
    /\ data = NilData
    /\ err = NoSqldError
    /\ resp = NoResponse
    /\ NoBatch
    /\ store \in { <<>>,
                   <<[id |-> GoInt64("1"), name |-> GoString("jill"), age |-> GoNil]>> }
    /\ served = <<>>

NextStore ==
    \/ accept
    \/ serveRead
    \/ serveCreate

SpecStore == InitStore /\ [][NextStore]_vars
-----------------------------------------------------------------------------
(* Properties of the compilers and of handleQuery                          *)

\* s holds sub as a run of consecutive elements
Contains(s, sub) ==
    \E i \in 1..(Len(s) - Len(sub) + 1) : SubSeq(s, i, i + Len(sub) - 1) = sub

\* the path of the request below the url prefix, its table and its id
RelOf(r) == CHOOSE rel \in RelPaths : r.path = PathUnder(url, rel)
TableIn(r) == RelOf(r)[1]
IdIn(r) == IF Len(RelOf(r)) > 1 THEN RelOf(r)[2] ELSE ""

ReservedKeys == {"__limit__", "__offset__", "__order_by__"}
FilterKeysIn(q) == DOMAIN q \ ReservedKeys

\* the text k IN (?,...,?) with n placeholders, and its arguments
InPredicate(k, n) ==
    <<k, " IN (">> \o [i \in 1..(2 * n - 1) |-> IF i % 2 = 1 THEN "?" ELSE ","]
        \o <<")">>
InArguments(vals) == [i \in 1..Len(vals) |-> GoString(vals[i])]

\* the decimal texts of the non-negative numbers
Numerals == {Itoa(n) : n \in 0..MaxNum}

Answered(h) == pc = "responded" /\ handler = h

\* C1: buildSelectQuery compiles every key other than __limit__, __offset__
\* and __order_by__ to k IN (?,...) with one placeholder per value of k,
\* never to k = ?, and k's values are arguments in the order received;
\* GET /user?name=jim gives SELECT * FROM user WHERE name IN (?) with
\* the argument "jim".
C1_FilterIsInList ==
    Answered("read") =>
        /\ \A k \in FilterKeysIn(req.query) :
               /\ Contains(compiled.frags, InPredicate(k, Len(req.query[k])))
               /\ ~Contains(compiled.frags, <<k, " = ", "?">>)
               /\ Contains(compiled.args, InArguments(req.query[k]))
        /\ ( /\ req.path = <<"", "user">>
             /\ DOMAIN req.query = {"name"}
             /\ req.query["name"] = <<"jim">> )
           => /\ compiled.sql = "SELECT * FROM user WHERE name IN (?)"
              /\ compiled.args = <<GoString("jim")>>

C1_Witness ==
    /\ Answered("read")
    /\ req.path = <<"", "user">>
    /\ DOMAIN req.query = {"name", "age"}
    /\ req.query["name"] = <<"jill", "jim">>
    /\ compiled.sql = "SELECT * FROM user WHERE age IN (?) AND name IN (?,?)"

\* C2: buildSelectQuery on a request with no query parameters gives exactly
\* SELECT * FROM T with no argument and no WHERE clause for the path /T or
\* /T/, and exactly SELECT * FROM T WHERE id = ? with the argument K, kept
\* a string, for the path /T/K.
C2_NoQuerySelect ==
    (Answered("read") /\ DOMAIN req.query = {} /\ TableIn(req) # "") =>
        IF IdIn(req) = ""
        THEN /\ compiled.err = ""
             /\ compiled.sql = "SELECT * FROM " \o TableIn(req)
             /\ compiled.args = <<>>
             /\ ~Contains(compiled.frags, <<" WHERE ">>)
        ELSE /\ compiled.err = ""
             /\ compiled.sql = "SELECT * FROM " \o TableIn(req) \o " WHERE id = ?"
             /\ compiled.args = <<GoString(IdIn(req))>>

C2_Witness ==
    /\ Answered("read")
    /\ DOMAIN req.query = {}
    /\ req.path = <<"", "user", "8">>
    /\ compiled.sql = "SELECT * FROM user WHERE id = ?"
    /\ compiled.args = <<[t |-> "string", v |-> "8"]>>

\* C3: buildSelectQuery with __limit__=n and __offset__=m, both numerals of
\* non-negative numbers, and no other key, on a path without id, gives
\* SELECT * FROM <table> LIMIT n OFFSET m with no argument: LIMIT comes
\* before OFFSET whatever the order the two keys are visited in.
C3_LimitBeforeOffset ==
    ( /\ Answered("read")
      /\ DOMAIN req.query = {"__limit__", "__offset__"}
      /\ req.query["__limit__"][1] \in Numerals
      /\ req.query["__offset__"][1] \in Numerals
      /\ TableIn(req) # "" /\ IdIn(req) = "" ) =>
        /\ compiled.sql = "SELECT * FROM " \o TableIn(req)
                              \o " LIMIT " \o req.query["__limit__"][1]
                              \o " OFFSET " \o req.query["__offset__"][1]
        /\ compiled.args = <<>>

C3_Witness ==
    /\ Answered("read")
    /\ DOMAIN req.query = {"__limit__", "__offset__"}
    /\ compiled.sql = "SELECT * FROM user LIMIT 100 OFFSET 200"
    /\ compiled.args = <<>>

\* the SET clauses for the body's keys in the order vo
SetClausesFor(vo) ==
    Flatten(Join([i \in 1..Len(vo) |-> <<vo[i], " = ", "?">>], <<", ">>))

\* the WHERE clause with the id predicate first, then the predicates of the
\* filter keys in the order fo; and its arguments
WhereClauseFor(id, q, fo) ==
    LET parts == (IF id # "" THEN << <<"id", " = ", "?">> >> ELSE <<>>)
                 \o [i \in 1..Len(fo) |-> InPredicate(fo[i], Len(q[fo[i]]))]
    IN  IF parts = <<>> THEN <<>>
        ELSE <<" WHERE ">> \o Flatten(Join(parts, <<" AND ">>))
WhereArgumentsFor(id, q, fo) ==
    (IF id # "" THEN <<GoString(id)>> ELSE <<>>)
    \o Flatten([i \in 1..Len(fo) |-> InArguments(q[fo[i]])])

\* frags is pre followed by nothing, or by a LIMIT clause
EndsWithOptionalLimit(frags, pre) ==
    /\ Len(frags) >= Len(pre)
    /\ SubSeq(frags, 1, Len(pre)) = pre
    /\ \/ Len(frags) = Len(pre)
       \/ Len(frags) = Len(pre) + 2 /\ frags[Len(pre) + 1] = " LIMIT "

\* requests that name a table and whose query holds filter keys and
\* __limit__ only
OnlyFiltersAndLimit(r) ==
    /\ TableIn(r) # ""
    /\ DOMAIN r.query \subseteq {"name", "age", "__limit__"}

\* C4: buildUpdateQuery gives UPDATE <table> SET c = ?, ... from the body's
\* keys, then the WHERE clause with the id predicate first and the filter
\* predicates after it, then LIMIT; the arguments are the SET values in the
\* order of the SET clauses, then the id, then the filter values.
C4_UpdateShape ==
    ( /\ Answered("update") /\ ~compiled.none /\ compiled.err = ""
      /\ OnlyFiltersAndLimit(req) ) =>
        /\ \E vo \in Perms(DOMAIN req.body.obj),
              fo \in Perms(FilterKeysIn(req.query)) :
               /\ EndsWithOptionalLimit(compiled.frags,
                      <<"UPDATE ", TableIn(req), " SET ">> \o SetClausesFor(vo)
                          \o WhereClauseFor(IdIn(req), req.query, fo))
               /\ compiled.args = [i \in 1..Len(vo) |-> req.body.obj[vo[i]]]
                                      \o WhereArgumentsFor(IdIn(req), req.query, fo)
        /\ ( /\ req.path = <<"", "user", "8">> /\ DOMAIN req.query = {}
             /\ DOMAIN req.body.obj = {"name"} )
           => /\ compiled.sql = "UPDATE user SET name = ? WHERE id = ?"
              /\ compiled.args = <<GoString("jack"), GoString("8")>>
        /\ ( /\ req.path = <<"", "user">>
             /\ DOMAIN req.query = {"name", "__limit__"}
             /\ req.query["name"] = <<"jill">> /\ req.query["__limit__"] = <<"5">>
             /\ DOMAIN req.body.obj = {"age"} )
           => /\ compiled.sql = "UPDATE user SET age = ? WHERE name IN (?) LIMIT 5"
              /\ compiled.args = <<GoNumber("66"), GoString("jill")>>

C4_Witness ==
    /\ Answered("update")
    /\ req.path = <<"", "user", "8">>
    /\ DOMAIN req.query = {"name", "__limit__"}
    /\ compiled.sql = "UPDATE user SET age = ?, name = ? WHERE id = ? AND name IN (?,?) LIMIT 5"
    /\ compiled.args = <<GoNumber("66"), GoString("jack"), GoString("8"),
                         GoString("jill"), GoString("jim")>>

\* C5: for a request whose query holds only filter keys and __limit__,
\* buildDeleteQuery gives DELETE FROM <table> followed by the WHERE and
\* LIMIT clauses and the arguments buildSelectQuery gives after
\* SELECT * FROM <table>, up to the order of the filter predicates.
C5_DeleteLikeSelect ==
    (Answered("del") /\ OnlyFiltersAndLimit(req)) =>
        /\ \E ord \in Perms(DOMAIN req.query) :
               LET s == buildSelectQuery(req, ord)
               IN  /\ SubSeq(s.frags, 1, 4) = <<"SELECT ", "*", " FROM ", TableIn(req)>>
                   /\ compiled.err = "" /\ s.err = ""
                   /\ compiled.frags = <<"DELETE FROM ", TableIn(req)>>
                                           \o SubSeq(s.frags, 5, Len(s.frags))
                   /\ compiled.args = s.args
        /\ ( /\ req.path = <<"", "user">>
             /\ DOMAIN req.query = {"name", "__limit__"}
             /\ req.query["name"] = <<"jill">> /\ req.query["__limit__"] = <<"5">> )
           => /\ compiled.sql = "DELETE FROM user WHERE name IN (?) LIMIT 5"
              /\ compiled.args = <<GoString("jill")>>

C5_Witness ==
    /\ Answered("del")
    /\ req.path = <<"", "user", "8">>
    /\ DOMAIN req.query = {"name", "age", "__limit__"}
    /\ compiled.sql = "DELETE FROM user WHERE id = ? AND name IN (?) AND age IN (?) LIMIT 5"

\* C6: execQuery, for update and del: a statement that executes without
\* error and affects no row gives a NotFound error with code 404 and a nil
\* payload, never (nil, nil); one that affects a row or more gives
\* (nil, nil).
C6_ZeroRowsIsNotFound ==
    ( /\ pc = "responded" /\ handler \in {"update", "del"} /\ stmts # <<>>
      /\ stmts[1].answer.err.isNil /\ stmts[1].answer.rowsAffectedErr.isNil ) =>
        IF stmts[1].answer.rowsAffected = 0
        THEN ~err.isNil /\ err.Code = 404 /\ data = NilData
        ELSE err.isNil /\ data = NilData

C6_Witness ==
    /\ Answered("update")
    /\ stmts # <<>>
    /\ stmts[1].answer.err.isNil /\ stmts[1].answer.rowsAffectedErr.isNil
    /\ stmts[1].answer.rowsAffected = 0
    /\ err.Code = 404
    /\ resp.status = 404

\* the elements of the array, and what became of each in its unit
Elements == DOMAIN listOf(req)
Attempted(i) ==
    /\ i \in DOMAIN units
    /\ units[i].pc \in {"lockErr", "lockItem", "appendErr", "appendItem",
                        "exiting", "done"}
Succeeded(i) == Attempted(i) /\ units[i].err.isNil
Finished(i) == i \in DOMAIN units /\ units[i].pc \in {"done", "unwound"}
BatchOver == crashed \/ pc = "responded"

\* the rows of a payload slice are the rows of the elements in S, whatever
\* their order
ExactlyRowsOf(rows, S) ==
    /\ Len(rows) = Cardinality(S)
    /\ {rows[k] : k \in DOMAIN rows} = {units[i].item : i \in S}

\* C7: in a batch create every element is inserted independently: when the
\* batch is over, every object of the array has been handed to the database
\* whatever became of the other elements; and the payload written is the
\* plain array of the created rows iff no element failed, otherwise an object
\* whose errors has one entry per failed element and whose objects is
\* exactly the rows that succeeded.
C7_BatchIsolation ==
    /\ BatchOver => \A i \in Elements : listOf(req)[i].ok => Attempted(i)
    /\ pc = "responded" =>
         LET ok == {i \in Elements : Succeeded(i)}
             failed == Elements \ ok
         IN  IF failed = {}
             THEN /\ data.kind = "rows"
                  /\ ExactlyRowsOf(data.rows, ok)
             ELSE /\ data.kind = "map"
                  /\ Len(data.map.errors) = Cardinality(failed)
                  /\ ExactlyRowsOf(data.map.objects, ok)

\* C8: createMany returns only after every spawned unit has finished: when
\* it returns, one unit was spawned per element of the list, every unit has
\* run its wg.Done() and executes nothing more (none is inserting, waiting
\* for a mutex or appending), and both mutexes are free.
C8_ReturnsAfterAllUnits ==
    pc = "returned" =>
        /\ spawned = Len(listOf(req))
        /\ DOMAIN units = Elements
        /\ \A i \in Elements : Finished(i)
        /\ errMutex = 0 /\ itemMutex = 0
        /\ wg = 0

\* createMany has returned from a batch of three in which one insert failed
\* and two rows were created
C8_Witness ==
    /\ pc = "returned"
    /\ Len(listOf(req)) = 3
    /\ Len(errors) = 1
    /\ Len(items) = 2
    /\ \A i \in Elements : units[i].pc = "done"

\* C11: handleQuery renders the outcome of every handler by one rule: an
\* error gives its Code as status and its message (which http.Error ends
\* with a newline) as body; no error and a nil payload gives 204 and an
\* empty body; no error and a payload gives the payload with 200, or with
\* 201 when the handler was create.  So an update or a del without error is
\* answered 204 with an empty body and a create without error 201.
C11_RenderRule ==
    pc = "responded" =>
        /\ IF ~err.isNil
           THEN /\ resp.status = err.Code
                /\ resp.body = err.Err \o "\n"
                /\ ~resp.json
           ELSE IF data = NilData
           THEN resp.status = 204 /\ resp.body = "" /\ ~resp.json
           ELSE /\ resp.status = IF handler = "create" THEN 201 ELSE 200
                /\ resp.json /\ resp.data = data
        /\ (handler \in {"update", "del"} /\ err.isNil) =>
               resp.status = 204 /\ resp.body = "" /\ ~resp.json
        /\ (handler = "create" /\ err.isNil) => resp.status = 201

\* a POST of an object to a table path answered 201 with the created row
C11_Witness ==
    /\ Answered("create")
    /\ TableIn(req) = "user"
    /\ err.isNil
    /\ data.kind = "map"
    /\ resp.status = 201 /\ resp.json

\* the text of an insert of the columns cols into table, one placeholder per
\* column
InsertText(table, cols) ==
    Concat(<<"INSERT INTO ", table, " ">>
           \o (IF cols # <<>> THEN <<"(">> \o Join(cols, ",") \o <<") ">> ELSE <<>>)
           \o <<"VALUES (">>
           \o [i \in 1..(2 * Len(cols) - 1) |-> IF i % 2 = 1 THEN "?" ELSE ","]
           \o <<")">>)

\* C12: when createSingle succeeds the row returned is the posted map with
\* id bound to the identifier the database generated (the int64 that
\* LastInsertId gave, positive whenever the database numbers rows from 1),
\* and every other key bound to its posted value; and the INSERT sent lists
\* the columns in some order with, at each position, the value posted for
\* the column at that position.
C12_CreatedRow ==
    (Answered("create") /\ err.isNil /\ TableIn(req) # "") =>
        LET obj == req.body.obj
            res == stmts[1].answer
        IN  /\ data.kind = "map"
            /\ DOMAIN data.map = DOMAIN obj \cup {"id"}
            /\ data.map["id"] = GoInt64(Itoa(res.lastInsertId))
            /\ \A k \in DOMAIN obj \ {"id"} : data.map[k] = obj[k]
            /\ Len(stmts) = 1
            /\ \E cols \in Perms(DOMAIN obj) :
                   /\ stmts[1].sql = InsertText(TableIn(req), cols)
                   /\ stmts[1].args = [i \in 1..Len(cols) |-> obj[cols[i]]]

\* an object of two columns was created with the columns sent as age, name
C12_Witness ==
    /\ Answered("create") /\ err.isNil
    /\ req.body.obj = [name |-> GoString("jack"), age |-> GoNumber("66")]
    /\ stmts[1].sql = "INSERT INTO user (age,name) VALUES (?,?)"
    /\ stmts[1].args = <<GoNumber("66"), GoString("jack")>>
    /\ data = MapData([name |-> GoString("jack"), age |-> GoNumber("66"),
                       id |-> GoInt64("3")])

\* the ways a raw request fails
RawFails ==
    LET query == RawQueryOf(req.body)
    IN  \/ req.body.kind = "unreadable"
        \/ ~DecodesToRawQuery(req.body)
        \/ query.ReadQuery = "" /\ query.WriteQuery = ""
        \/ /\ query.ReadQuery # "" /\ stmts # <<>>
           /\ \/ ~stmts[1].answer.err.isNil
              \/ ~stmts[1].answer.columnsErr.isNil
              \/ stmts[1].answer.scanErrAt # 0
              \/ ~stmts[1].answer.rowsErr.isNil
        \/ /\ query.ReadQuery = "" /\ query.WriteQuery # "" /\ stmts # <<>>
           /\ ~stmts[1].answer.err.isNil

\* C13: raw returns a nil payload and a BadRequest error, code 400, in
\* every failure case: the body cannot be read, it is not JSON that decodes
\* to a RawQuery, neither read nor write is a non-empty string, the read
\* statement fails, or the write statement fails.
C13_RawFailureIsBadRequest ==
    (Answered("raw") /\ RawFails) =>
        /\ data = NilData
        /\ ~err.isNil /\ err.Code = 400
        /\ resp.status = 400

\* a read statement whose second row could not be scanned
C13_Witness ==
    /\ Answered("raw")
    /\ RawQueryOf(req.body).ReadQuery = "SELECT * FROM t1"
    /\ stmts # <<>> /\ stmts[1].op = "Query"
    /\ stmts[1].answer.scanErrAt = 2
    /\ err.Code = 400 /\ data = NilData

\* C14: create rejects a body that is a JSON array: the payload is nil,
\* the error has code 400 and no statement is sent to the database.
C14_ArrayRejected ==
    (Answered("create") /\ req.body.kind = "array") =>
        /\ data = NilData
        /\ ~err.isNil /\ err.Code = 400
        /\ stmts = <<>>
        /\ resp.status = 400

C14_Witness ==
    /\ Answered("create")
    /\ req.body.kind = "array" /\ req.body.list # <<>>
    /\ TableIn(req) = "user"
    /\ err.Code = 400 /\ stmts = <<>>

\* the rows stored once the k-th request was answered
StoreAfter(k) == IF k < Len(served) THEN served[k + 1].store ELSE store

\* two payloads hold the same rows, in whatever order
SameRows(a, b) ==
    /\ a.kind = "rows" /\ b.kind = "rows"
    /\ Len(a.rows) = Len(b.rows)
    /\ \A row \in {a.rows[k] : k \in DOMAIN a.rows} \cup {b.rows[k] : k \in DOMAIN b.rows} :
           Cardinality({k \in DOMAIN a.rows : a.rows[k] = row})
               = Cardinality({k \in DOMAIN b.rows : b.rows[k] = row})

\* C15: a GET never changes the stored rows, and two GETs of the same
\* request with no write between them, when both succeed, return the same
\* rows with the same column values, row order aside.
C15_ReadsAreIdempotent ==
    /\ \A k \in DOMAIN served :
           served[k].req.method = "GET" => StoreAfter(k) = served[k].store
    /\ \A i, j \in DOMAIN served :
           ( /\ i < j
             /\ served[i].req = served[j].req
             /\ \A k \in i..j : served[k].req.method = "GET"
             /\ served[i].err.isNil /\ served[j].err.isNil ) =>
               SameRows(served[i].data, served[j].data)

\* the same GET with two filter keys answered twice in a row with the row
\* posted before
C15_Witness ==
    /\ Len(served) = 3
    /\ served[1].req.method = "POST" /\ served[1].err.isNil
    /\ served[2].req = served[3].req
    /\ served[2].req.method = "GET"
    /\ DOMAIN served[2].req.query = {"name", "age"}
    /\ served[2].err.isNil /\ served[3].err.isNil
    /\ Len(served[2].data.rows) = 1
    /\ served[3].data = served[2].data

\* a value read back is the scalar posted: a string as the same string, a
\* number as a number of the same text
SameScalar(got, posted) ==
    IF posted.t = "string" THEN got = posted
    ELSE got.t \in {"float64", "int64"} /\ got.v = posted.v

\* C16: after a POST of an object that succeeded, a GET of the same table
\* filtered on one posted column by its posted value, when it succeeds,
\* returns the created row: its id is the one the POST returned and each
\* posted column holds the posted scalar, a text having come back from
\* bytes to a string.
C16_RoundTrip ==
    \A i, j \in DOMAIN served :
        ( /\ i < j
          /\ served[i].req.method = "POST" /\ served[i].err.isNil
          /\ served[j].req.method = "GET" /\ served[j].err.isNil
          /\ served[j].req.path = served[i].req.path
          /\ \E c \in DOMAIN served[i].req.body.obj :
                 /\ DOMAIN served[j].req.query = {c}
                 /\ served[j].req.query[c] = <<served[i].req.body.obj[c].v>> ) =>
            /\ served[j].data.kind = "rows"
            /\ \E k \in DOMAIN served[j].data.rows :
                   LET row == served[j].data.rows[k]
                       obj == served[i].req.body.obj
                   IN  /\ row["id"] = served[i].data.map["id"]
                       /\ \A c \in DOMAIN obj : SameScalar(row[c], obj[c])

\* jack, 66 was posted and then read back by age
C16_Witness ==
    /\ Len(served) >= 2
    /\ served[1].req.body.obj = [name |-> GoString("jack"), age |-> GoNumber("66")]
    /\ served[1].err.isNil
    /\ served[2].req.method = "GET"
    /\ served[2].req.query = [age |-> <<"66">>]
    /\ served[2].err.isNil
    /\ \E k \in DOMAIN served[2].data.rows :
           /\ served[2].data.rows[k]["name"] = GoString("jack")
           /\ served[2].data.rows[k]["age"] = GoNumber("66")
           /\ served[2].data.rows[k]["id"] = served[1].data.map["id"]

\* C17: compiling is deterministic: the statement a handler compiled is the
\* statement every other compilation of the same request gives, whatever
\* order the runtime visits the keys of the query and of the body in.
C17_CompileDeterminism ==
    /\ Answered("read") =>
          \A ord \in Perms(DOMAIN req.query) :
              LET c == buildSelectQuery(req, ord)
              IN  c.sql = compiled.sql /\ c.args = compiled.args
    /\ (Answered("update") /\ ~compiled.none) =>
          \A vord \in Perms(DOMAIN MapOf(req.body)), ord \in Perms(DOMAIN req.query) :
              LET c == buildUpdateQuery(req, MapOf(req.body), vord, ord)
              IN  c.sql = compiled.sql /\ c.args = compiled.args
    /\ Answered("del") =>
          \A ord \in Perms(DOMAIN req.query) :
              LET c == buildDeleteQuery(req, ord)
              IN  c.sql = compiled.sql /\ c.args = compiled.args

\* the value the request gives for the placeholder at position j of the
\* text: in an INSERT the value posted for the column at the same rank of
\* the column list; otherwise the value of the nearest column before it,
\* which is posted when the column is in the SET clause, the id of the path
\* for id = ?, and else the value of that rank among the key's values
ValueAt(frags, j) ==
    IF frags[1] = "INSERT INTO "
    THEN LET rank == Cardinality({m \in 1..j : frags[m] = "?"})
             open == CHOOSE m \in 1..j : frags[m] = "("
         IN  req.body.obj[frags[open + 2 * rank - 1]]
    ELSE LET k == CHOOSE k \in 1..j :
                      /\ IsColumnAt(frags, k)
                      /\ \A k2 \in (k + 1)..j : ~IsColumnAt(frags, k2)
             rank == Cardinality({m \in k..j : frags[m] = "?"})
             inSet == \A w \in 1..k : frags[w] # " WHERE "
         IN  IF inSet THEN MapOf(req.body)[frags[k]]
             ELSE IF frags[k] = "id" /\ frags[k + 1] = " = "
             THEN GoString(IdIn(req))
             ELSE GoString(req.query[frags[k]][rank])

\* C18: in every statement the select, update, delete and insert compilers
\* produce there are as many arguments as placeholders in the text, the
\* i-th argument is the value that belongs to the i-th placeholder in text
\* order, and the statement is sent to the database as compiled.
C18_ArgumentsMatchPlaceholders ==
    (pc = "responded" /\ ~compiled.none /\ compiled.err = "") =>
        LET at == PlaceholderPositions(compiled.frags)
        IN  /\ Len(compiled.args) = Len(at)
            /\ \A i \in 1..Len(at) :
                   compiled.args[i] = ValueAt(compiled.frags, at[i])
            /\ Len(stmts) = 1
            /\ stmts[1].sql = compiled.sql
            /\ stmts[1].args = compiled.args

\* an update with two SET clauses, the id and a key of two values
C18_Witness ==
    /\ Answered("update")
    /\ compiled.sql = "UPDATE user SET age = ?, name = ? WHERE id = ? AND name IN (?,?)"
    /\ compiled.args = <<GoNumber("66"), GoString("jack"), GoString("8"),
                         GoString("jill"), GoString("jim")>>
    /\ stmts # <<>>

\* C19: a write statement that fails to execute is reported as BadRequest,
\* code 400, on each write path: create, update, del and the write of raw;
\* and so is a failure to get the affected-row count in update and del.
C19_WriteFailureIsBadRequest ==
    ( /\ pc = "responded" /\ handler \in {"create", "update", "del", "raw"}
      /\ stmts # <<>> /\ stmts[1].op = "Exec"
      /\ \/ ~stmts[1].answer.err.isNil
         \/ /\ handler \in {"update", "del"}
            /\ ~stmts[1].answer.rowsAffectedErr.isNil ) =>
        /\ ~err.isNil /\ err.Code = 400
        /\ resp.status = 400

\* C20: a GET on a table path is answered 400 when the select does not
\* compile, 500 with no rows when the query, the column listing, a scan or
\* the iteration fails, and otherwise 200 with a JSON array of the rows,
\* also when no row matches: never 204 and never a body that is not an
\* array (a nil slice is written as null).
C20_ReadOutcomes ==
    Answered("read") =>
        IF compiled.err # ""
        THEN resp.status = 400 /\ stmts = <<>>
        ELSE LET q == stmts[1].answer
             IN  IF \/ ~q.err.isNil \/ ~q.columnsErr.isNil
                    \/ q.scanErrAt # 0 \/ ~q.rowsErr.isNil
                 THEN resp.status = 500 /\ resp.data = NilData /\ ~resp.json
                 ELSE /\ resp.status = 200 /\ resp.json
                      /\ resp.data.kind = "rows"
                      /\ ~resp.data.isNil
                      /\ Len(resp.data.rows) = Len(q.rows)

\* C9: handleQuery sends each request to one handler by its method, GET to
\* read, POST to create, PUT to update, DELETE to del, and answers any other
\* method with 405 on every path, with no statement sent to the database.
C9_DispatchByMethod ==
    pc = "responded" =>
        /\ req.method = "GET" => handler = "read"
        /\ req.method = "POST" => handler \in {"create", "raw"}
        /\ req.method = "PUT" => handler = "update"
        /\ req.method = "DELETE" => handler = "del"
        /\ req.method \notin {"GET", "POST", "PUT", "DELETE"} =>
               /\ resp.status = 405
               /\ handler = "none"
               /\ stmts = <<>>

\* C10: on the root path the raw handler runs exactly when raw mode is on
\* and the method is POST; with raw mode off a POST to the root path is
\* answered 400; and no table handler runs for the root path.
C10_RootPath ==
    (pc = "responded" /\ req.path = <<"", "">>) =>
        /\ handler = "raw" <=> (allowRaw /\ req.method = "POST")
        /\ (~allowRaw /\ req.method = "POST") => resp.status = 400
        /\ handler \notin {"read", "create", "update", "del"}

C10_Witness ==
    /\ pc = "responded" /\ req.path = <<"", "">>
    /\ allowRaw /\ req.method = "POST"
    /\ handler = "raw"
    /\ stmts # <<>>
    /\ resp.status = 200

\* the statement has the clause LIMIT or OFFSET, and the text written after it
HasClause(frags, word) == \E k \in 1..(Len(frags) - 1) : frags[k] = word
ClauseText(frags, word) ==
    frags[1 + CHOOSE k \in 1..(Len(frags) - 1) : frags[k] = word]

\* the request without one key of its query
WithoutKey(r, key) ==
    [r EXCEPT !.query = [k \in DOMAIN r.query \ {key} |-> r.query[k]]]

\* what the handler's compiler gives for the request r, in any order of its
\* maps
Compilations(h, r) ==
    CASE h = "read" ->
           {buildSelectQuery(r, ord) : ord \in Perms(DOMAIN r.query)}
      [] h = "update" ->
           {buildUpdateQuery(r, MapOf(r.body), vo[1], vo[2]) :
                vo \in Perms(DOMAIN MapOf(r.body)) \X Perms(DOMAIN r.query)}
      [] h = "del" ->
           {buildDeleteQuery(r, ord) : ord \in Perms(DOMAIN r.query)}

\* C21: a LIMIT clause (in a select also an OFFSET clause) is written
\* exactly when the first value of __limit__ (__offset__) is the text of an
\* integer that is not negative, and then with that number; any other value
\* (text that is no number, a negative number) adds no clause and no error:
\* the statement is the one compiled for the request without the key.
C21_LimitAndOffset ==
    (pc = "responded" /\ handler \in {"read", "update", "del"} /\ ~compiled.none) =>
        \A key \in ({"__limit__"} \cup (IF handler = "read" THEN {"__offset__"} ELSE {}))
                       \cap DOMAIN req.query :
            LET word == IF key = "__limit__" THEN " LIMIT " ELSE " OFFSET "
                n == Atoi(req.query[key][1])
            IN  IF n.ok /\ n.n >= 0
                THEN compiled.err = "" =>
                         /\ HasClause(compiled.frags, word)
                         /\ ClauseText(compiled.frags, word) = Itoa(n.n)
                ELSE /\ ~HasClause(compiled.frags, word)
                     /\ compiled \in Compilations(handler, WithoutKey(req, key))

\* how many arguments the request binds: one per column of an update's
\* body, one for the id of the path, one per value of each filter key
BoundValues(h, r) ==
    (IF h = "update" THEN Cardinality(DOMAIN MapOf(r.body)) ELSE 0)
    + (IF parseRequest(r).id # "" THEN 1 ELSE 0)
    + Cardinality(UNION { {<<k, i>> : i \in DOMAIN r.query[k]} :
                          k \in FilterKeysIn(r.query) })

\* C22: in the statements of the select, update and delete compilers the
\* keys __limit__, __offset__ and __order_by__ are never the column of a
\* predicate and bind no argument: the arguments are those of the body, of
\* the id and of the filter keys, also for __offset__ on a PUT or a DELETE.
C22_ReservedKeysAreNotFilters ==
    ( /\ pc = "responded" /\ handler \in {"read", "update", "del"}
      /\ ~compiled.none /\ compiled.err = "" ) =>
        /\ \A k \in 1..Len(compiled.frags) :
               IsColumnAt(compiled.frags, k) => compiled.frags[k] \notin ReservedKeys
        /\ Len(compiled.args) = BoundValues(handler, req)

\* C23: the rows readQuery returns are the rows the database yielded, in the
\* same order and as many; in each, every column name holds the value
\* scanned for that column in that row, bytes as the string of the same
\* bytes and any other value, nil too, as it is; no value is a byte
\* sequence and no row holds the values of another row.
C23_RowBinding ==
    ( /\ pc = "responded" /\ err.isNil
      /\ stmts # <<>> /\ stmts[1].op = "Query" ) =>
        LET q == stmts[1].answer
        IN  /\ data.kind = "rows"
            /\ Len(data.rows) = Len(q.rows)
            /\ \A i \in DOMAIN q.rows :
                   /\ DOMAIN data.rows[i] = {q.columns[j] : j \in DOMAIN q.columns}
                   /\ \A j \in DOMAIN q.columns :
                          LET got == data.rows[i][q.columns[j]]
                              val == q.rows[i][j]
                          IN  /\ got.t # "[]byte"
                              /\ IF val.t = "[]byte" THEN got = GoString(val.v)
                                 ELSE got = val

\* a read of two rows: bytes in the first, an integer and a null in the
\* second
C23_Witness ==
    /\ Answered("read") /\ err.isNil
    /\ stmts # <<>>
    /\ stmts[1].answer.rows = <<RowHi, RowHow>>
    /\ data.rows = <<[a |-> GoString("hi"), b |-> GoString("there")],
                     [a |-> GoInt64("7"), b |-> GoNil]>>

\* the units that have appended their outcome
Appended == {i \in DOMAIN units : units[i].pc \in {"exiting", "done"}}

\* C24: in createMany, whatever the interleaving, every element is inserted
\* once and adds one entry to one of the two slices: at any time there is
\* one statement per unit that has called createSingle and one entry per
\* unit that has appended, and when createMany has returned each element
\* of the list has one statement and one entry, so that
\* len(items) + len(errors) is the length of the list.
C24_OneEntryPerElement ==
    /\ Len(stmts) = Cardinality({i \in Elements : Attempted(i)})
    /\ Len(items) + Len(errors) = Cardinality(Appended)
    /\ Len(items) = Cardinality({i \in Appended : units[i].err.isNil})
    /\ pc \in {"returned", "responded"} =>
          /\ Len(stmts) = Len(listOf(req))
          /\ Len(items) + Len(errors) = Len(listOf(req))

\* C25: an update whose body decodes to a map of no key, {} or null, fails
\* when it is compiled: update returns BadRequest, code 400, with a nil
\* payload, the response is 400, and no statement is handed to the
\* database, so that the stored data cannot change.
C25_EmptyUpdateFails ==
    ( /\ Answered("update")
      /\ req.body.kind \in {"null", "object"}
      /\ MapOf(req.body) = <<>> ) =>
        /\ compiled.err # ""
        /\ ~err.isNil /\ err.Code = StatusBadRequest
        /\ data = NilData
        /\ resp.status = StatusBadRequest
        /\ stmts = <<>>

\* a PUT of null on a row of a table
C25_Witness ==
    /\ Answered("update")
    /\ req.body.kind = "null"
    /\ parseRequest(req).table = "user" /\ parseRequest(req).id = "8"
    /\ compiled.err = "update statements must have at least one Set clause"
    /\ err.Code = StatusBadRequest
    /\ stmts = <<>>

\* the text a raw body gives for read or write: the string under that name,
\* empty when the body has none
RawText(name) ==
    IF req.body.kind = "object" /\ name \in DOMAIN req.body.obj
    THEN req.body.obj[name].v ELSE ""

\* C26: raw hands at most one statement to the database, as written in the
\* body and with no argument: the read statement when read is not empty,
\* and then never the write statement; the write statement, once, when only
\* write is not empty, and then the payload is last_insert_id and
\* rows_affected whenever db.Exec gave no error, also for zero affected
\* rows; nothing when both are empty or the body does not decode.
C26_RawOneStatement ==
    Answered("raw") =>
        /\ Len(stmts) <= 1
        /\ \A k \in DOMAIN stmts : stmts[k].args = <<>>
        /\ IF req.body.kind \notin {"null", "object"}
              \/ \E name \in {"read", "write"} \cap DOMAIN req.body.obj :
                     req.body.obj[name].t # "string"
           THEN stmts = <<>>
           ELSE IF RawText("read") # ""
           THEN /\ Len(stmts) = 1
                /\ stmts[1].op = "Query"
                /\ stmts[1].sql = RawText("read")
           ELSE IF RawText("write") # ""
           THEN /\ Len(stmts) = 1
                /\ stmts[1].op = "Exec"
                /\ stmts[1].sql = RawText("write")
                /\ stmts[1].answer.err.isNil =>
                      /\ err.isNil
                      /\ resp.status = StatusOK
                      /\ data = MapData(
                           [last_insert_id |-> GoInt64(Itoa(stmts[1].answer.lastInsertId)),
                            rows_affected |-> GoInt64(Itoa(stmts[1].answer.rowsAffected))])
           ELSE stmts = <<>>

\* a body with read and write: the read statement alone was run
C26_Witness ==
    /\ Answered("raw")
    /\ RawText("read") = "SELECT * FROM t1"
    /\ RawText("write") = "DELETE FROM t1"
    /\ Len(stmts) = 1
    /\ stmts[1].op = "Query"
    /\ stmts[1].sql = "SELECT * FROM t1"
    /\ err.isNil

\* C27: whatever the path and the url prefix, the table name parseRequest
\* gives to a compiler or to createSingle is not empty: no statement is
\* compiled, and none is handed to the database, for the table "".
C27_TableNeverEmpty ==
    ( /\ pc = "responded"
      /\ handler \in {"read", "create", "update", "del"}
      /\ (~compiled.none \/ stmts # <<>>) ) =>
        parseRequest(req).table # ""

\* C28: when createSingle returns an error the stored rows are those stored
\* before the call: a create answered with an error has stored no row, and
\* a row that was stored is returned with no error, also when the driver
\* cannot give the generated id.
C28_FailedCreateStoresNothing ==
    \A k \in DOMAIN served :
        (served[k].req.method = "POST" /\ ~served[k].err.isNil) =>
            StoreAfter(k) = served[k].store

\* C29: createSingle hands a statement to the database only when the INSERT
\* compiled: when ToSql answers an error, create returns that error and
\* db.Exec is not called.
C29_NoExecAfterCompileError ==
    (Answered("create") /\ ~compiled.none /\ compiled.err # "") =>
        /\ stmts = <<>>
        /\ ~err.isNil /\ err.Err = compiled.err

\* C30: createMany comes to a result for every array: no unit ends the
\* process, also one whose element is not a JSON object, and when
\* createMany has returned every unit has run to its end and every element
\* that is not an object has its entry in errors, the other elements
\* having been inserted.
C30_EveryUnitReports ==
    /\ ~crashed
    /\ pc \in {"returned", "responded"} =>
          /\ \A i \in Elements : units[i].pc = "done"
          /\ Len(errors) >= Cardinality({i \in Elements : ~listOf(req)[i].ok})
          /\ \A i \in Elements : listOf(req)[i].ok => Attempted(i)
====
